---- MODULE Spec2Model ----
(***************************************************************************)
(* fstock_bot: the price pipeline (parse_shop.get_query, parse_prices,     *)
(* table.create_table), the report renderer (table.get_text,               *)
(* table.get_text_month) and the bot (app.services.scheduler, main).       *)
(*                                                                         *)
(* Program strings are sequences of one-character tokens.  Cyrillic        *)
(* letters are written in ASCII with a trailing underscore ("g_" is the    *)
(* Cyrillic letter of "gram", "g" the Latin one); upper case is the same   *)
(* token in capitals.  Money is counted in hundredths of a rouble, so a    *)
(* retailer price in minor units and one in roubles are different numbers  *)
(* for the same amount.                                                    *)
(*                                                                         *)
(* Spec is the script table.py run again and again.  SpecQuery,            *)
(* SpecTable, SpecReport, SpecExtract and SpecFilter call one function     *)
(* with arguments drawn from bounded sets.  SpecSched is one               *)
(* SchedulerService with its schedule_checker task, SpecBroadcast the      *)
(* broadcasts of main.send_message_all_user_and_channel.                   *)
(***************************************************************************)
EXTENDS Integers, Sequences, FiniteSets, TLC

VARIABLES
    data,     \* data/<query directory>: raw payload files and cvs/ files
    report,   \* data/report/<key>.csv: the history file of each basket item
    today,    \* the date datetime.now() returns
    pc,       \* position of the table.py script (parse, then create_table)
    fetched,  \* the raw files written by the run of the script in progress
    call,     \* a function called on its own, and its arguments
    result,   \* what that call returned or raised
    minute,   \* the minute of the day datetime.now() returns
    sched,    \* the SchedulerService objects and their schedule_checker tasks
    db        \* the database: the users and channels tables

vars == <<data, report, today, pc, fetched, call, result, minute, sched, db>>

\* the bot's state where a specification leaves the bot out: no service, an
\* empty database
NoServices == <<>>

NoDatabase == [users |-> <<>>, channels |-> <<>>]

(***************************************************************************)
(* Characters and str methods                                              *)
(***************************************************************************)
Digits == {"0", "1", "2", "3", "4", "5", "6", "7", "8", "9"}

Lowercase ==
    { "a_", "b_", "v_", "g_", "d_", "e_", "yo_", "zh_", "z_", "i_", "j_",
      "k_", "l_", "m_", "n_", "o_", "p_", "r_", "s_", "t_", "u_", "f_", "h_",
      "ts_", "ch_", "sh_", "sch_", "hard_", "y_", "soft_", "eh_", "yu_",
      "ya_", "a", "b", "c", "d", "e", "f", "g", "h", "i", "j", "k", "l", "m",
      "n", "o", "p", "q", "r", "s", "t", "u", "v", "w", "x", "y", "z" }

CasePairs ==
    { <<"A_", "a_">>, <<"B_", "b_">>, <<"V_", "v_">>, <<"G_", "g_">>,
      <<"D_", "d_">>, <<"E_", "e_">>, <<"YO_", "yo_">>, <<"ZH_", "zh_">>,
      <<"Z_", "z_">>, <<"I_", "i_">>, <<"J_", "j_">>, <<"K_", "k_">>,
      <<"L_", "l_">>, <<"M_", "m_">>, <<"N_", "n_">>, <<"O_", "o_">>,
      <<"P_", "p_">>, <<"R_", "r_">>, <<"S_", "s_">>, <<"T_", "t_">>,
      <<"U_", "u_">>, <<"F_", "f_">>, <<"H_", "h_">>, <<"TS_", "ts_">>,
      <<"CH_", "ch_">>, <<"SH_", "sh_">>, <<"SCH_", "sch_">>,
      <<"HARD_", "hard_">>, <<"Y_", "y_">>, <<"SOFT_", "soft_">>,
      <<"EH_", "eh_">>, <<"YU_", "yu_">>, <<"YA_", "ya_">>, <<"A", "a">>,
      <<"B", "b">>, <<"C", "c">>, <<"D", "d">>, <<"E", "e">>, <<"F", "f">>,
      <<"G", "g">>, <<"H", "h">>, <<"I", "i">>, <<"J", "j">>, <<"K", "k">>,
      <<"L", "l">>, <<"M", "m">>, <<"N", "n">>, <<"O", "o">>, <<"P", "p">>,
      <<"Q", "q">>, <<"R", "r">>, <<"S", "s">>, <<"T", "t">>, <<"U", "u">>,
      <<"V", "v">>, <<"W", "w">>, <<"X", "x">>, <<"Y", "y">>, <<"Z", "z">> }

Uppercase == {p[1] : p \in CasePairs}

lower_map == [c \in Uppercase |-> (CHOOSE p \in CasePairs : p[1] = c)[2]]

\* str.lower() on one character
lower_char(c) == IF c \in Uppercase THEN lower_map[c] ELSE c

\* str.lower()
lower(s) == [i \in DOMAIN s |-> lower_char(s[i])]

\* regex classes \d, \s and \w
IsDigit(c) == c \in Digits

IsSpace(c) == c = " "

IsWord(c) == lower_char(c) \in Lowercase \/ c \in Digits \/ c = "_"

\* re.search(re.escape(word), name, re.IGNORECASE): a substring test
re_search(word, name) ==
    \E i \in 0..(Len(name) - Len(word)) :
        \A t \in 1..Len(word) : lower_char(name[i + t]) = lower_char(word[t])

\* str.split(): the maximal runs of non-blank characters
RECURSIVE split_from(_, _, _)
split_from(s, i, cur) ==
    IF i > Len(s)
    THEN IF cur = <<>> THEN <<>> ELSE <<cur>>
    ELSE IF IsSpace(s[i])
         THEN (IF cur = <<>> THEN <<>> ELSE <<cur>>) \o split_from(s, i + 1, <<>>)
         ELSE split_from(s, i + 1, Append(cur, s[i]))

split(s) == split_from(s, 1, <<>>)

\* str.replace(' ', '')
remove_spaces(s) == SelectSeq(s, LAMBDA c : c # " ")

(***************************************************************************)
(* Python values, as json.load returns them                                *)
(***************************************************************************)
\* None, a number, a string, a list, and the absence of a dict key.  A dict
\* is a record with k = "dict" and one field per key the parsers read; the
\* top-level dict of a payload also says whether it holds other keys.
None == [k |-> "none"]

Absent == [k |-> "absent"]

Num(n) == [k |-> "num", n |-> n]

Str(s) == [k |-> "str", s |-> s]

List(items) == [k |-> "list", items |-> items]

\* dict.get(key) and dict.get(key, default) on the value stored under key
get(v) == IF v.k = "absent" THEN None ELSE v

get_default(v, default) == IF v.k = "absent" THEN default ELSE v

\* bool(v)
truthy(v) ==
    CASE v.k = "num"  -> v.n # 0
      [] v.k = "str"  -> v.s # <<>>
      [] v.k = "list" -> v.items # <<>>
      [] v.k = "dict" -> IF "other" \in DOMAIN v
                         THEN v.other \/ v.products.k # "absent"
                                      \/ v.items.k # "absent"
                         ELSE TRUE
      [] OTHER        -> FALSE

\* the value of a string of decimal digits
RECURSIVE digits_value(_)
digits_value(s) ==
    IF s = <<>> THEN 0
    ELSE 10 * digits_value(SubSeq(s, 1, Len(s) - 1))
             + (CHOOSE d \in 0..9 : ToString(d) = s[Len(s)])

\* float(v), in hundredths: a number, or a string of digits; ValueError or
\* TypeError otherwise
to_float(v) ==
    CASE v.k = "num" -> [raised |-> FALSE, value |-> 100 * v.n]
      [] v.k = "str" /\ v.s # <<>> /\ (\A i \in DOMAIN v.s : IsDigit(v.s[i]))
                     -> [raised |-> FALSE, value |-> 100 * digits_value(v.s)]
      [] OTHER       -> [raised |-> TRUE, value |-> 0]

\* float(v / 100), in hundredths: TypeError unless v is a number
div_100(v) ==
    IF v.k = "num" THEN [raised |-> FALSE, value |-> v.n]
    ELSE [raised |-> TRUE, value |-> 0]

(***************************************************************************)
(* parse_prices: the four extractors                                       *)
(***************************************************************************)
\* What one iteration of an extractor's loop does: it raises, it appends
\* nothing, or it appends one (name, price) pair.
Raise == [k |-> "raise"]

Skip == [k |-> "skip"]

Emit(name, price) == [k |-> "emit", name |-> name, price |-> price]

\* products appended by the iterations from i on, unless one raises
RECURSIVE collect(_, _)
collect(steps, i) ==
    IF i > Len(steps) THEN [raised |-> FALSE, value |-> <<>>]
    ELSE IF steps[i].k = "raise" THEN [raised |-> TRUE, value |-> <<>>]
    ELSE LET rest == collect(steps, i + 1)
         IN  IF rest.raised THEN rest
             ELSE [raised |-> FALSE,
                   value  |-> (IF steps[i].k = "emit"
                               THEN <<[name |-> steps[i].name,
                                       price |-> steps[i].price]>>
                               ELSE <<>>) \o rest.value]

\* prices.get('regular', '0') of product.get('prices', {})
step_5ka(product) ==
    IF product.k # "dict" THEN Raise
    ELSE LET name   == get(product.name)
             prices == product.prices
         IN  IF prices.k \notin {"absent", "dict"} THEN Raise
             ELSE LET price == IF prices.k = "absent" THEN Str(<<"0">>)
                               ELSE get_default(prices.regular, Str(<<"0">>))
                      discount_price == IF prices.k = "absent" THEN None
                                        ELSE get(prices.discount)
                      final_price == to_float(IF truthy(discount_price)
                                              THEN discount_price ELSE price)
                  IN  IF final_price.raised THEN Raise
                      ELSE Emit(name, final_price.value)

parse_5ka_prices(d) ==
    IF d.k # "dict" THEN [raised |-> TRUE, value |-> <<>>]
    ELSE LET products == get_default(d.products, List(<<>>))
         IN  IF products.k # "list" THEN [raised |-> TRUE, value |-> <<>>]
             ELSE collect([i \in DOMAIN products.items |->
                              step_5ka(products.items[i])], 1)

step_dixi(card) ==
    IF card.k # "dict" THEN Raise
    ELSE LET name  == get(card.title)
             price == get(card.priceSimple)
         IN  IF truthy(name) /\ truthy(price)
             THEN LET f == to_float(price)
                  IN  IF f.raised THEN Raise ELSE Emit(name, f.value)
             ELSE Skip

parse_dixi_prices(d) ==
    IF ~(truthy(d) /\ d.k = "list") THEN [raised |-> FALSE, value |-> <<>>]
    ELSE IF d.items[1].k # "dict" THEN [raised |-> TRUE, value |-> <<>>]
    ELSE LET cards == get(d.items[1].cards)
         IN  IF ~truthy(cards) THEN [raised |-> FALSE, value |-> <<>>]
             ELSE IF cards.k # "list" THEN [raised |-> TRUE, value |-> <<>>]
             ELSE collect([i \in DOMAIN cards.items |->
                              step_dixi(cards.items[i])], 1)

step_magnit(product) ==
    IF product.k # "dict" THEN Raise
    ELSE LET name  == get(product.name)
             price == get(product.price)
         IN  IF truthy(name) /\ truthy(price)
             THEN LET f == div_100(price)
                  IN  IF f.raised THEN Raise ELSE Emit(name, f.value)
             ELSE Skip

parse_magnit_prices(d) ==
    IF d.k # "dict" THEN [raised |-> TRUE, value |-> <<>>]
    ELSE LET items == get_default(d.items, List(<<>>))
         IN  IF items.k # "list" THEN [raised |-> TRUE, value |-> <<>>]
             ELSE collect([i \in DOMAIN items.items |->
                              step_magnit(items.items[i])], 1)

step_lenta(product) ==
    IF product.k # "dict" THEN Raise
    ELSE LET name   == get(product.name)
             prices == product.prices
         IN  IF prices.k \notin {"absent", "dict"} THEN Raise
             ELSE LET price == IF prices.k = "absent" THEN None
                               ELSE get(prices.price)
                  IN  IF truthy(name) /\ truthy(price)
                      THEN LET f == div_100(price)
                           IN  IF f.raised THEN Raise ELSE Emit(name, f.value)
                      ELSE Skip

parse_lenta_prices(d) ==
    IF d.k # "dict" THEN [raised |-> TRUE, value |-> <<>>]
    ELSE LET items == get_default(d.items, List(<<>>))
         IN  IF items.k # "list" THEN [raised |-> TRUE, value |-> <<>>]
             ELSE collect([i \in DOMAIN items.items |->
                              step_lenta(items.items[i])], 1)

(***************************************************************************)
(* parse_prices.filter_for_product                                         *)
(***************************************************************************)
\* the replacements table of preprocess_query, in dict order:
\* (\d+)\s*<unit>\b  ->  \1<to>
replacements ==
    << [unit |-> <<"g_">>,        to |-> <<"g">>],
       [unit |-> <<"g_", "r_">>,  to |-> <<"g">>],
       [unit |-> <<"m_", "l_">>,  to |-> <<"m", "l">>],
       [unit |-> <<"k_", "g_">>,  to |-> <<"k", "g">>],
       [unit |-> <<"sh_", "t_">>, to |-> <<"sh_", "t_">>] >>

\* the first index after the run of digits (of blanks) that starts at i
RECURSIVE digits_end(_, _)
digits_end(s, i) ==
    IF i <= Len(s) /\ IsDigit(s[i]) THEN digits_end(s, i + 1) ELSE i

RECURSIVE spaces_end(_, _)
spaces_end(s, i) ==
    IF i <= Len(s) /\ IsSpace(s[i]) THEN spaces_end(s, i + 1) ELSE i

\* <unit>\b matches at k, ignoring case
unit_at(s, k, unit) ==
    /\ k + Len(unit) - 1 <= Len(s)
    /\ \A t \in 1..Len(unit) : lower_char(s[k + t - 1]) = unit[t]
    /\ (k + Len(unit) > Len(s) \/ ~IsWord(s[k + Len(unit)]))

\* re.sub(r'(\d+)\s*<unit>\b', r'\1<to>', s, flags=re.IGNORECASE) from index i
RECURSIVE re_sub(_, _, _)
re_sub(rule, s, i) ==
    IF i > Len(s) THEN <<>>
    ELSE IF ~IsDigit(s[i]) THEN <<s[i]>> \o re_sub(rule, s, i + 1)
    ELSE LET j == digits_end(s, i)
             k == spaces_end(s, j)
         IN  IF unit_at(s, k, rule.unit)
             THEN SubSeq(s, i, j - 1) \o rule.to
                      \o re_sub(rule, s, k + Len(rule.unit))
             ELSE SubSeq(s, i, j - 1) \o re_sub(rule, s, j)

RECURSIVE apply_replacements(_, _)
apply_replacements(s, n) ==
    IF n > Len(replacements) THEN s
    ELSE apply_replacements(re_sub(replacements[n], s, 1), n + 1)

preprocess_query(query) == lower(apply_replacements(query, 1))

\* all(any(re.search(word.lower(), name) for variant in [word,
\* preprocess_query(word)]) for word in positive_promt): the search is for
\* word, whatever the variant
positive_match(name, positive_promt) ==
    \A w \in 1..Len(positive_promt) :
        LET word == positive_promt[w]
        IN  \E variant \in {word, preprocess_query(word)} :
                re_search(lower(word), name)

negative_match(name, negative) ==
    \E w \in 1..Len(negative) : re_search(lower(negative[w]), name)

\* the loop of filter_for_product from product i on; product[0].lower()
\* raises on a name that is not a string
RECURSIVE filter_from(_, _, _, _)
filter_from(products, positive_promt, negative, i) ==
    IF i > Len(products) THEN [raised |-> FALSE, value |-> <<>>]
    ELSE IF products[i].name.k # "str" THEN [raised |-> TRUE, value |-> <<>>]
    ELSE LET name == preprocess_query(lower(products[i].name.s))
             keep == positive_match(name, positive_promt)
                         /\ ~negative_match(name, negative)
             rest == filter_from(products, positive_promt, negative, i + 1)
         IN  IF rest.raised THEN rest
             ELSE [raised |-> FALSE,
                   value  |-> (IF keep THEN <<products[i]>> ELSE <<>>)
                                  \o rest.value]

filter_for_product(products, positive_promt, negative) ==
    filter_from(products, positive_promt, negative, 1)

negative_promt ==
    << <<"S_", "v_", "o_", "ya_", " ", "ts_", "e_", "n_", "a_">>,
       <<"3", "6", "5", " ", "d_", "n_", "e_", "j_">>,
       <<"m_", "a_", "r_", "k_", "e_", "t_">>,
       <<"M_", "o_", "ya_", " ", "ts_", "e_", "n_", "a_">>,
       <<"p_", "r_", "!", "s_", "t_", "o_">>,
       <<"K_", "r_", "a_", "s_", "n_", "a_", "ya_", " ", "ts_", "e_", "n_", "a_">>,
       <<"b_", "a_", "g_", "e_", "t_">>,
       <<"F", "R", "E", "S", "H">>,
       <<"v_", " ", "s_", "o_", "u_", "s_", "e_">>,
       <<"3", ".", "2", "%">>,
       <<"2", "0", "0", "m_", "l_">>,
       <<"0", ",", "2", "l_">>,
       <<"0", ",", "0", "5", "%">>,
       <<"2", "0", "0", "g_">>,
       <<"5", "0", "0", "m_", "l_">>,
       <<"T_", "yo_", "m_", "a_">> >>

(***************************************************************************)
(* Bounds                                                                  *)
(***************************************************************************)
\* rows a history file may hold before the script is started again
MaxRows == 2

\* days the clock may advance
MaxDay == 2

\* rows of a history file handed to the report functions
MaxHistory == 2

(***************************************************************************)
(* Dates                                                                   *)
(***************************************************************************)
StartDate == [year |-> 2025, month |-> 12, day |-> 30]

is_leap(y) == (y % 4 = 0 /\ y % 100 # 0) \/ y % 400 = 0

days_in_month(y, m) ==
    IF m = 2 THEN (IF is_leap(y) THEN 29 ELSE 28)
    ELSE IF m \in {4, 6, 9, 11} THEN 30 ELSE 31

next_day(d) ==
    IF d.day < days_in_month(d.year, d.month)
    THEN [d EXCEPT !.day = d.day + 1]
    ELSE IF d.month < 12
         THEN [d EXCEPT !.month = d.month + 1, !.day = 1]
         ELSE [year |-> d.year + 1, month |-> 1, day |-> 1]

RECURSIVE date_of(_)
date_of(n) == IF n <= 1 THEN StartDate ELSE next_day(date_of(n - 1))

\* datetime.now() on day number n of the run of the program
now(n) == date_of(n)

\* strftime('%d-%m-%Y'): the fields in the order DD-MM-YYYY
strftime_dmy(d) == <<d.day, d.month, d.year>>

(***************************************************************************)
(* Fractions: the float results of mean()                                  *)
(***************************************************************************)
RECURSIVE gcd(_, _)
gcd(a, b) == IF b = 0 THEN a ELSE gcd(b, a % b)

frac(n, d) == LET g == gcd(n, d) IN [num |-> n \div g, den |-> d \div g]

frac_add(x, y) == frac(x.num * y.den + y.num * x.den, x.den * y.den)

RECURSIVE sum_ints(_)
sum_ints(s) == IF s = <<>> THEN 0 ELSE Head(s) + sum_ints(Tail(s))

RECURSIVE sum_fracs(_)
sum_fracs(s) ==
    IF s = <<>> THEN frac(0, 1) ELSE frac_add(Head(s), sum_fracs(Tail(s)))

RECURSIVE min_ints(_)
min_ints(s) ==
    IF Len(s) = 1 THEN s[1]
    ELSE LET m == min_ints(Tail(s)) IN IF s[1] <= m THEN s[1] ELSE m

\* Series.min() and Series.mean() of a column of prices
series_min(prices) == min_ints(prices)

series_mean(prices) == frac(sum_ints(prices), Len(prices))

\* Series.mean() of a column of means
series_mean_of_means(means) ==
    LET t == sum_fracs(means) IN frac(t.num, t.den * Len(means))

(***************************************************************************)
(* parse_shop.get_query                                                    *)
(***************************************************************************)
\* the markets list of get_query, in its order
markets == <<"5ka", "magnit", "lenta", "dixi">>

Markets == {markets[i] : i \in DOMAIN markets}

\* config/<name>.json of every market, and config/proxies.json
ConfigFiles == Markets \cup {"proxies"}

NoFile == [k |-> "nofile"]

\* What a request to one market ends in: requests raises (RequestError), the
\* status is not 200 (RequestError), the body is no JSON (JSONDecodeError),
\* or the body is JSON.
RequestFailed == [k |-> "request_error"]

BadStatus == [k |-> "status_not_200"]

NotJson == [k |-> "not_json"]

Json(body) == [k |-> "json", body |-> body]

\* Market.__init__ of every entry of the markets list: _create_query loads
\* <name>.json and then proxies.json; the first file that does not load
\* raises ConfigError out of get_query
markets_constructed(loadable) ==
    \A i \in DOMAIN markets : markets[i] \in loadable /\ "proxies" \in loadable

\* a loop that a failure ends ("break")
after_failure_break(i) == Len(markets) + 1

\* the index the loop goes on with after market i failed ("continue")
after_failure(i) == i + 1

\* The loop over the markets from index i on.  acc holds the raw files of the
\* query's directory, the markets searched and the markets whose file was
\* written.
RECURSIVE query_loop(_, _, _)
query_loop(acc, outcome, i) ==
    IF i > Len(markets) THEN acc
    ELSE LET m == markets[i]
             searched == [acc EXCEPT !.queried = @ \cup {m}]
         IN  IF outcome[m].k \in {"request_error", "status_not_200"}
             THEN \* except MarketError: continue
                  query_loop(searched, outcome, after_failure(i))
             ELSE IF outcome[m].k = "not_json"
             THEN \* except json.JSONDecodeError
                  query_loop(searched, outcome, after_failure(i))
             ELSE query_loop([searched EXCEPT
                                  !.json[m] = outcome[m].body,
                                  !.written = @ \cup {m}],
                             outcome, i + 1)

\* get_query(search_query) with the raw files json of its directory:
\* loadable are the configuration files that load, outcome[m] is what the
\* request to market m ends in
get_query(json, loadable, outcome) ==
    IF ~markets_constructed(loadable)
    THEN [raised |-> TRUE, json |-> json, queried |-> {}, written |-> {}]
    ELSE LET acc == query_loop([json |-> json, queried |-> {},
                                written |-> {}], outcome, 1)
         IN  [raised |-> FALSE, json |-> acc.json, queried |-> acc.queried,
              written |-> acc.written]

(***************************************************************************)
(* parse_prices.generate_cvs                                               *)
(***************************************************************************)
\* the parsers dict, in its order
parsers == <<"5ka", "dixi", "magnit", "lenta">>

parser(m, d) ==
    CASE m = "5ka"    -> parse_5ka_prices(d)
      [] m = "dixi"   -> parse_dixi_prices(d)
      [] m = "magnit" -> parse_magnit_prices(d)
      [] m = "lenta"  -> parse_lenta_prices(d)

\* save_to_csv: the file holds the header and one row per product
Csv(rows) == [k |-> "csv", rows |-> rows]

\* The loop over the parsers from index i on; dir holds the json files and
\* the cvs files of the query's directory.  An exception of a parser or of
\* the filter ends the function, the files written so far stay.
RECURSIVE cvs_loop(_, _, _)
cvs_loop(dir, query, i) ==
    IF i > Len(parsers) THEN [raised |-> FALSE, dir |-> dir]
    ELSE LET m == parsers[i]
             d == dir.json[m]
         IN  IF d.k = "nofile" \/ ~truthy(d) THEN cvs_loop(dir, query, i + 1)
             ELSE LET products == parser(m, d)
                  IN  IF products.raised THEN [raised |-> TRUE, dir |-> dir]
                      ELSE LET filtred_products ==
                                   filter_for_product(products.value,
                                       split(query), negative_promt)
                           IN  IF filtred_products.raised
                               THEN [raised |-> TRUE, dir |-> dir]
                               ELSE cvs_loop(
                                      [dir EXCEPT !.cvs[m] =
                                           Csv(filtred_products.value)],
                                      query, i + 1)

generate_cvs(dir, query) == cvs_loop(dir, query, 1)

(***************************************************************************)
(* table.create_table                                                      *)
(***************************************************************************)
\* the queries of parse() that are modelled, in their order
queries == << <<"ya_", "j_", "ts_", "o_", " ", "1", "0">> >>

\* the names dict, in its order: key and display label
names ==
    << [key |-> <<"m_", "a_", "s_", "l_", "o_">>,             label |-> "maslo"],
       [key |-> <<"m_", "o_", "l_", "o_", "k_", "o_">>,       label |-> "moloko"],
       [key |-> <<"h_", "l_", "e_", "b_">>,                   label |-> "hleb"],
       [key |-> <<"k_", "o_", "l_", "b_", "a_", "s_", "a_">>, label |-> "kolbasa"],
       [key |-> <<"k_", "r_", "u_", "p_", "a_">>,             label |-> "krupa"],
       [key |-> <<"s_", "a_", "h_", "a_", "r_">>,             label |-> "sahar"],
       [key |-> <<"ya_", "j_", "ts_", "o_">>,                 label |-> "yajtso"],
       [key |-> <<"f_", "i_", "l_", "e_">>,                   label |-> "file"] >>

Keys == {names[i].key : i \in DOMAIN names}

\* data/<query without blanks>, the directory of a query
folder_path(query) == remove_spaces(query)

Dirs == {folder_path(queries[i]) : i \in DOMAIN queries}

\* a query directory before anything was written to it
EmptyDir == [json |-> [m \in Markets |-> NoFile], cvs |-> [m \in Markets |-> NoFile]]

\* get_query makes the directory when it writes the first raw file
dir_exists(d) == \E m \in Markets : d.json[m].k # "nofile"

\* os.listdir('data'): the query directories and report
listdir(dat) ==
    {d \in Dirs : dir_exists(dat[d])} \cup {<<"r", "e", "p", "o", "r", "t">>}

\* the directories whose lower-cased name contains the key; the loop keeps
\* the last one os.listdir yields
product_dirs(dat, key) == {d \in listdir(dat) : re_search(key, lower(d))}

\* one entry of all_data per csv file that has rows: its minimum and mean
all_data(dir) ==
    LET with_rows == SelectSeq(parsers,
                         LAMBDA m : dir.cvs[m].k = "csv" /\ dir.cvs[m].rows # <<>>)
        prices(m) == [r \in DOMAIN dir.cvs[m].rows |-> dir.cvs[m].rows[r].price]
    IN  [f \in DOMAIN with_rows |->
            [min_price |-> series_min(prices(with_rows[f])),
             avg_price |-> series_mean(prices(with_rows[f]))]]

\* a row taken from the last file alone
report_data_last_file(all, label, date) ==
    [date      |-> strftime_dmy(date),
     product   |-> label,
     min_price |-> all[Len(all)].min_price,
     avg_price |-> all[Len(all)].avg_price]

\* report_data: the row of one product, from all_data
report_data(all, label, date) ==
    [date      |-> strftime_dmy(date),
     product   |-> label,
     min_price |-> series_min([f \in DOMAIN all |-> all[f].min_price]),
     avg_price |-> series_mean_of_means([f \in DOMAIN all |-> all[f].avg_price])]

\* a history file rewritten with the new row alone
write_report_overwrite(file, row) == Csv(<<row>>)

\* the history file after the row is added: pd.concat with the rows read, or
\* a new file
write_report(file, row) ==
    IF file.k = "csv" THEN Csv(Append(file.rows, row)) ELSE Csv(<<row>>)

\* a loop body that passes over a product whose history ends on the date
table_for_product_once(file, dir, label, date) ==
    IF all_data(dir) = <<>> THEN file
    ELSE IF file.k = "csv" /\ file.rows # <<>>
            /\ file.rows[Len(file.rows)].date = strftime_dmy(date)
    THEN file
    ELSE write_report(file, report_data(all_data(dir), label, date))

\* the body of the loop of create_table for one product whose directory
\* dir the search found
table_for_product(file, dir, label, date) ==
    IF all_data(dir) = <<>> THEN file
    ELSE write_report(file, report_data(all_data(dir), label, date))

\* create_table(): the report directory is made, then every product of
\* names is handled; pick[key] is the directory the search ends on, and a
\* product the search finds no directory for is passed over
create_table(dat, rep, date, pick) ==
    [exists |-> TRUE,
     files  |-> [key \in Keys |->
                   LET label == (CHOOSE n \in {names[i] : i \in DOMAIN names} :
                                     n.key = key).label
                   IN  IF pick[key].k = "dir"
                       THEN table_for_product(rep.files[key],
                                dat[pick[key].name], label, date)
                       ELSE rep.files[key]]]

\* the directory the search may end on for the key: one of the matching
\* directories, or none when there is none
pick_of(dat, key) ==
    IF product_dirs(dat, key) = {} THEN {[k |-> "none"]}
    ELSE {[k |-> "dir", name |-> d] : d \in product_dirs(dat, key)}

\* the choices for the first n products of names
RECURSIVE pick_seqs(_, _)
pick_seqs(dat, n) ==
    IF n = 0 THEN {<<>>}
    ELSE {Append(p, c) : p \in pick_seqs(dat, n - 1),
                         c \in pick_of(dat, names[n].key)}

\* the choices of pick: for every key what the search ends on
Picks(dat) ==
    {[key \in Keys |-> p[CHOOSE i \in DOMAIN names : names[i].key = key]] :
        p \in pick_seqs(dat, Len(names))}

(***************************************************************************)
(* table.get_text and table.get_text_month                                 *)
(***************************************************************************)
\* round(x) of the fraction n/d, d > 0: to the nearest integer, ties to even
round_half_even(n, d) ==
    LET q == n \div d
        r == n - q * d
    IN  IF 2 * r < d THEN q
        ELSE IF 2 * r > d THEN q + 1
        ELSE IF q % 2 = 0 THEN q ELSE q + 1

\* round(price, 2) of a price in hundredths
round_2(x) == round_half_even(x.num, x.den)

\* percent as the code has it: the int 0 it starts from, or the float
\* round((new / (old * 0.01)) - 100, 1), counted in tenths
Percent0 == [k |-> "int", tenths |-> 0]

percent_of(new, old) ==
    [k |-> "float",
     tenths |-> round_half_even(1000 * (new.num * old.den - old.num * new.den),
                                old.num * new.den)]

\* the indicator with the up arrow kept for a rise only
arrow_strict(percent) == IF percent.tenths > 0 THEN "up+" ELSE "down"

\* ["down ", "up +"][percent >= 0]
arrow(percent) == IF percent.tenths >= 0 THEN "up+" ELSE "down"

\* get_product_from_table(table, index) for index -1 and -2: the Product of
\* the row, or None when iloc raises IndexError
get_product_from_table(rows, index) ==
    IF Len(rows) + index + 1 >= 1
    THEN [k |-> "product",
          name         |-> rows[Len(rows) + index + 1].product,
          date         |-> rows[Len(rows) + index + 1].date,
          middle_price |-> rows[Len(rows) + index + 1].avg_price,
          min_price    |-> rows[Len(rows) + index + 1].min_price]
    ELSE None

\* the basket line: percent_sum stays 0 when the division raises
\* ZeroDivisionError
summary_text(all_products_price, all_products_price_old) ==
    LET percent_sum == IF all_products_price_old.num = 0 THEN Percent0
                       ELSE percent_of(all_products_price, all_products_price_old)
    IN  [price   |-> round_2(all_products_price),
         percent |-> percent_sum,
         arrow   |-> arrow(percent_sum)]

Raised(error) == [raised |-> TRUE, error |-> error]

\* The loop of get_text over the history files in listing order, from file
\* i on.  acc holds the lines and the two sums.
RECURSIVE text_loop(_, _, _, _)
text_loop(files, order, i, acc) ==
    IF i > Len(order) THEN acc
    ELSE LET rows == files[order[i]].rows
             new_product == get_product_from_table(rows, -1)
             old_product == get_product_from_table(rows, -2)
             price == IF new_product.k = "product"
                      THEN frac_add(acc.all_products_price, new_product.middle_price)
                      ELSE acc.all_products_price
             price_old == IF old_product.k = "product"
                          THEN frac_add(acc.all_products_price_old,
                                        old_product.middle_price)
                          ELSE acc.all_products_price_old
         IN  IF old_product.k = "product" /\ old_product.middle_price.num = 0
             THEN Raised("ZeroDivisionError")
             ELSE IF new_product.k # "product"
             THEN Raised("AttributeError")
             ELSE LET percent == IF old_product.k = "product"
                                 THEN percent_of(new_product.middle_price,
                                                 old_product.middle_price)
                                 ELSE Percent0
                  IN  text_loop(files, order, i + 1,
                         [raised |-> FALSE,
                          text   |-> Append(acc.text,
                                       [key     |-> order[i],
                                        name    |-> new_product.name,
                                        price   |-> round_2(new_product.middle_price),
                                        percent |-> percent,
                                        arrow   |-> arrow(percent),
                                        min     |-> new_product.min_price]),
                          all_products_price     |-> price,
                          all_products_price_old |-> price_old])

\* get_text() with the report directory rep, listed in the given order
get_text(rep, order) ==
    IF ~rep.exists THEN Raised("FileNotFoundError")
    ELSE LET acc == text_loop(rep.files, order, 1,
                        [raised |-> FALSE, text |-> <<>>,
                         all_products_price     |-> frac(0, 1),
                         all_products_price_old |-> frac(0, 1)])
         IN  IF acc.raised THEN acc
             ELSE [raised  |-> FALSE,
                   summary |-> summary_text(acc.all_products_price,
                                            acc.all_products_price_old),
                   text    |-> acc.text]

\* the rows of the month and year: df[(month == month) & (year == year)];
\* a date is stored as DD-MM-YYYY
filtered_data(rows, month, year) ==
    SelectSeq(rows, LAMBDA r : r.date[2] = month /\ r.date[3] = year)

\* The loop of get_text_month over the history files from file i on.
RECURSIVE month_loop(_, _, _, _, _, _)
month_loop(files, order, month, year, i, acc) ==
    IF i > Len(order) THEN acc
    ELSE LET rows == files[order[i]].rows
             window == filtered_data(rows, month, year)
         IN  IF rows = <<>> THEN Raised("KeyError")
             ELSE IF window = <<>> THEN Raised("IndexError")
             ELSE LET name == rows[1].product
                      middle_price == series_mean_of_means(
                                          [r \in DOMAIN window |-> window[r].avg_price])
                      min_price == series_min(
                                          [r \in DOMAIN window |-> window[r].min_price])
                      new == window[1].avg_price
                      old == window[Len(window)].avg_price
                  IN  IF old.num = 0 THEN Raised("ZeroDivisionError")
                      ELSE month_loop(files, order, month, year, i + 1,
                             [raised |-> FALSE,
                              text   |-> Append(acc.text,
                                           [key     |-> order[i],
                                            name    |-> name,
                                            price   |-> round_2(middle_price),
                                            percent |-> percent_of(new, old),
                                            arrow   |-> arrow(percent_of(new, old)),
                                            min     |-> min_price]),
                              all_products_price     |->
                                  frac_add(acc.all_products_price, new),
                              all_products_price_old |->
                                  frac_add(acc.all_products_price_old, old)])

\* get_text_month(month) in the year of date
get_text_month(rep, order, month, date) ==
    IF ~rep.exists THEN Raised("FileNotFoundError")
    ELSE LET acc == month_loop(rep.files, order, month, date.year, 1,
                        [raised |-> FALSE, text |-> <<>>,
                         all_products_price     |-> frac(0, 1),
                         all_products_price_old |-> frac(0, 1)])
         IN  IF acc.raised THEN acc
             ELSE [raised  |-> FALSE,
                   summary |-> summary_text(acc.all_products_price,
                                            acc.all_products_price_old),
                   text    |-> acc.text]

(***************************************************************************)
(* The script table.py: parse(), then create_table()                       *)
(***************************************************************************)
\* Payloads the markets answer the modelled query with.
EggName == <<"YA_", "j_", "ts_", "o_", " ", "1", "0", "sh_", "t_">>

QuailName == <<"YA_", "j_", "ts_", "o_", " ", "2", "0", "sh_", "t_">>

Payload(products, items) ==
    [k |-> "dict", products |-> products, items |-> items, other |-> FALSE]

Product5ka(name, regular, discount) ==
    [k |-> "dict", name |-> Str(name),
     prices |-> [k |-> "dict", regular |-> regular, discount |-> discount]]

ItemMagnit(name, price) == [k |-> "dict", name |-> Str(name), price |-> Num(price)]

ItemLenta(name, price) ==
    [k |-> "dict", name |-> Str(name), prices |-> [k |-> "dict", price |-> Num(price)]]

CardDixi(name, price) ==
    [k |-> "dict", title |-> Str(name), priceSimple |-> Num(price)]

\* two matching products at 9 and 11 (discounted from 12) roubles and one
\* that does not match; only a product that does not match; {}
Body5kaMatch ==
    Payload(List(<<Product5ka(EggName, Str(<<"9">>), None),
                   Product5ka(EggName, Str(<<"1", "2">>), Str(<<"1", "1">>)),
                   Product5ka(QuailName, Str(<<"5">>), Absent)>>), Absent)

Body5kaNoMatch == Payload(List(<<Product5ka(QuailName, Str(<<"5">>), Absent)>>), Absent)

BodyEmpty == Payload(Absent, Absent)

\* one matching item at 1200 kopecks
BodyMagnitMatch == Payload(Absent, List(<<ItemMagnit(EggName, 1200)>>))

\* one item that does not match
BodyLentaNoMatch == Payload(Absent, List(<<ItemLenta(QuailName, 1000)>>))

\* one card that does not match
BodyDixiNoMatch == List(<<[k |-> "dict", cards |-> List(<<CardDixi(QuailName, 7)>>)]>>)

Bodies(m) ==
    CASE m = "5ka"    -> {Body5kaMatch, Body5kaNoMatch, BodyEmpty}
      [] m = "magnit" -> {BodyMagnitMatch}
      [] m = "lenta"  -> {BodyLentaNoMatch}
      [] m = "dixi"   -> {BodyDixiNoMatch}

\* the ways a request fails
Failures == {RequestFailed, BadStatus, NotJson}

\* what the request to market m may end in, failing as kinds says
Outcomes(m, kinds) == kinds \cup {Json(b) : b \in Bodies(m)}

\* what the requests of one call of get_query end in: one outcome per
\* market; no request is made when the markets list cannot be built
OutcomeVectors(loadable, kinds) ==
    IF markets_constructed(loadable)
    THEN {[m \in Markets |-> CASE m = "5ka"    -> o1
                               [] m = "magnit" -> o2
                               [] m = "lenta"  -> o3
                               [] m = "dixi"   -> o4] :
             o1 \in Outcomes("5ka", kinds), o2 \in Outcomes("magnit", kinds),
             o3 \in Outcomes("lenta", kinds), o4 \in Outcomes("dixi", kinds)}
    ELSE {[m \in Markets |-> RequestFailed]}

\* the configuration files that load: all of them, or all but one
Loadables == {ConfigFiles} \cup {ConfigFiles \ {f} : f \in ConfigFiles}

Idle == [at |-> "idle", q |-> 0]

NoCall == [fn |-> "none"]

NoReport == [exists |-> FALSE, files |-> [key \in Keys |-> NoFile]]

rows_of(file) == IF file.k = "csv" THEN file.rows ELSE <<>>

\* python table.py is started (by the scheduler's parse, or by /send parse)
start_script ==
    /\ pc.at = "idle"
    /\ \A key \in Keys : Len(rows_of(report.files[key])) < MaxRows
    /\ pc' = [at |-> "get_query", q |-> 1]
    /\ fetched' = [d \in Dirs |-> {}]
    /\ UNCHANGED <<data, report, today, call, result, minute, sched, db>>

\* parse(): get_query(query); an exception ends the script
do_get_query ==
    /\ pc.at = "get_query"
    /\ LET d == folder_path(queries[pc.q])
       IN  \E loadable \in Loadables :
           \E kind \in Failures :
           \E outcome \in OutcomeVectors(loadable, {kind}) :
              LET r == get_query(data[d].json, loadable, outcome)
              IN  IF r.raised
                  THEN /\ pc' = Idle
                       /\ UNCHANGED <<data, fetched>>
                  ELSE /\ pc' = [pc EXCEPT !.at = "generate_cvs"]
                       /\ data' = [data EXCEPT ![d].json = r.json]
                       /\ fetched' = [fetched EXCEPT ![d] = r.written]
    /\ UNCHANGED <<report, today, call, result, minute, sched, db>>

\* parse(): generate_cvs(query), then the next query; create_table() after
\* the last one
do_generate_cvs ==
    /\ pc.at = "generate_cvs"
    /\ LET d == folder_path(queries[pc.q])
           r == generate_cvs(data[d], queries[pc.q])
       IN  /\ data' = [data EXCEPT ![d] = r.dir]
           /\ pc' = IF r.raised THEN Idle
                    ELSE IF pc.q < Len(queries)
                         THEN [at |-> "get_query", q |-> pc.q + 1]
                         ELSE [at |-> "create_table", q |-> 0]
           /\ fetched' = IF r.raised THEN [x \in Dirs |-> {}] ELSE fetched
    /\ UNCHANGED <<report, today, call, result, minute, sched, db>>

do_create_table ==
    /\ pc.at = "create_table"
    /\ \E pick \in Picks(data) :
           report' = create_table(data, report, now(today), pick)
    /\ pc' = Idle
    /\ fetched' = [d \in Dirs |-> {}]
    /\ UNCHANGED <<data, today, call, result, minute, sched, db>>

\* a day passes
tick ==
    /\ today < MaxDay
    /\ today' = today + 1
    /\ UNCHANGED <<data, report, pc, fetched, call, result, minute, sched, db>>

Init ==
    /\ data = [d \in Dirs |-> EmptyDir]
    /\ report = NoReport
    /\ today = 1
    /\ pc = Idle
    /\ fetched = [d \in Dirs |-> {}]
    /\ call = NoCall
    /\ result = NoCall
    /\ minute = 0
    /\ sched = NoServices
    /\ db = NoDatabase

Next ==
    \/ start_script
    \/ do_get_query
    \/ do_generate_cvs
    \/ do_create_table
    \/ tick

Spec == Init /\ [][Next]_vars

(***************************************************************************)
(* get_query as a function of the configuration files that load, of what   *)
(* every market would answer, and of the raw files already on disk         *)
(***************************************************************************)
\* the raw files of the query's directory before the call: none, or the
\* files an earlier call wrote
PriorJson ==
    {EmptyDir.json,
     [m \in Markets |-> CASE m = "5ka"    -> Body5kaNoMatch
                          [] m = "magnit" -> BodyMagnitMatch
                          [] m = "lenta"  -> BodyLentaNoMatch
                          [] m = "dixi"   -> BodyDixiNoMatch]}

InitQuery ==
    /\ data = [d \in Dirs |-> EmptyDir]
    /\ report = NoReport
    /\ today = 1
    /\ pc = Idle
    /\ fetched = [d \in Dirs |-> {}]
    /\ \E json \in PriorJson, loadable \in Loadables :
       \E outcome \in OutcomeVectors(ConfigFiles, Failures) :
           call = [fn |-> "get_query", json |-> json, loadable |-> loadable,
                   outcome |-> outcome]
    /\ result = NoCall
    /\ minute = 0
    /\ sched = NoServices
    /\ db = NoDatabase

call_get_query ==
    /\ call.fn = "get_query"
    /\ result = NoCall
    /\ LET r == get_query(call.json, call.loadable, call.outcome)
       IN  result' = [fn |-> "get_query", raised |-> r.raised, json |-> r.json,
                      queried |-> r.queried, written |-> r.written]
    /\ UNCHANGED <<data, report, today, pc, fetched, call, minute, sched, db>>

NextQuery == call_get_query

SpecQuery == InitQuery /\ [][NextQuery]_vars

(***************************************************************************)
(* get_text and get_text_month as functions of the report directory        *)
(***************************************************************************)
\* the minimum and the average of the rows the history files are made of
RowValues ==
    {[min_price |-> 0,   avg_price |-> frac(0, 1)],
     [min_price |-> 900, avg_price |-> frac(1000, 1)],
     [min_price |-> 900, avg_price |-> frac(1100, 1)]}

\* the history files of one product of up to n rows, written on the days up
\* to day in the order of their dates
RECURSIVE Histories(_, _, _, _)
Histories(label, values, day, n) ==
    IF n = 0 THEN {<<>>}
    ELSE LET shorter == Histories(label, values, day, n - 1)
             \* the days not before the date of the last row of h
             later(h) ==
                 {u \in 1..day :
                     h = <<>> \/ \E w \in 1..u :
                                    h[Len(h)].date = strftime_dmy(date_of(w))}
         IN  shorter \cup
             UNION {{Append(h, [date      |-> strftime_dmy(date_of(t)),
                                product   |-> label,
                                min_price |-> v.min_price,
                                avg_price |-> v.avg_price]) :
                        v \in values, t \in later(h)} :
                    h \in {x \in shorter : Len(x) = n - 1}}

EggKey == <<"ya_", "j_", "ts_", "o_">>

ButterKey == <<"m_", "a_", "s_", "l_", "o_">>

\* the report directories handed to the report functions: none, or one with
\* the history files of two products or of one of them
Reports(day) ==
    {NoReport} \cup
    {[exists |-> TRUE,
      files  |-> [key \in Keys |-> IF key = EggKey THEN e
                                   ELSE IF key = ButterKey THEN b ELSE NoFile]] :
         e \in {NoFile} \cup {Csv(h) : h \in Histories("yajtso", RowValues, day, MaxHistory)},
         b \in {NoFile} \cup {Csv(h) : h \in Histories("maslo",
                     {v \in RowValues : v.avg_price.num # 1100}, day, MaxHistory)}}

\* os.listdir(directory): the files that exist, in any order
Listings(rep) ==
    LET present == {key \in Keys : rep.files[key].k = "csv"}
    IN  {o \in UNION {[1..n -> present] : n \in {Cardinality(present)}} :
            \A i, j \in DOMAIN o : i # j => o[i] # o[j]}

InitReport ==
    /\ data = [d \in Dirs |-> EmptyDir]
    /\ pc = Idle
    /\ fetched = [d \in Dirs |-> {}]
    /\ today \in 1..MaxDay
    /\ report \in Reports(today)
    /\ \E order \in Listings(report) :
           \/ call = [fn |-> "get_text", order |-> order]
           \/ \E month \in {now(today).month - 1, now(today).month} :
                  call = [fn |-> "get_text_month", order |-> order,
                          month |-> month]
    /\ result = NoCall
    /\ minute = 0
    /\ sched = NoServices
    /\ db = NoDatabase

call_get_text ==
    /\ call.fn = "get_text"
    /\ result = NoCall
    /\ result' = [fn |-> "get_text", out |-> get_text(report, call.order)]
    /\ UNCHANGED <<data, report, today, pc, fetched, call, minute, sched, db>>

call_get_text_month ==
    /\ call.fn = "get_text_month"
    /\ result = NoCall
    /\ result' = [fn |-> "get_text_month",
                  out |-> get_text_month(report, call.order, call.month,
                                         now(today))]
    /\ UNCHANGED <<data, report, today, pc, fetched, call, minute, sched, db>>

NextReport ==
    \/ call_get_text
    \/ call_get_text_month

SpecReport == InitReport /\ [][NextReport]_vars

(***************************************************************************)
(* create_table as a function of the per-market files                      *)
(***************************************************************************)
\* entries of a payload list handed to an extractor
MaxEntries == 2

\* the prices the matching entries of a market's payload are drawn from:
\* roubles as strings for 5ka, kopecks for magnit and lenta
TablePrices(m) ==
    CASE m = "5ka"    -> {Product5ka(EggName, Str(<<"9">>), Absent),
                          Product5ka(EggName, Str(<<"1", "1">>), Absent)}
      [] m = "magnit" -> {ItemMagnit(EggName, 900), ItemMagnit(EggName, 1500)}
      [] m = "lenta"  -> {ItemLenta(EggName, 1000), ItemLenta(EggName, 1200)}

\* the raw file of market m: none, or a payload of up to MaxEntries
\* matching entries; for dixi none, or a payload without a match
TableBodies(m) ==
    {NoFile} \cup
    (IF m = "dixi" THEN {BodyDixiNoMatch}
     ELSE {IF m = "5ka" THEN Payload(List(l), Absent) ELSE Payload(Absent, List(l)) :
              l \in UNION {[1..n -> TablePrices(m)] : n \in 0..MaxEntries}})

\* the history files before the call: one row of the egg file
TableReport ==
    [exists |-> TRUE,
     files  |-> [NoReport.files EXCEPT ![<<"ya_", "j_", "ts_", "o_">>] =
                    Csv(<<[date      |-> strftime_dmy(now(1)),
                           product   |-> "yajtso",
                           min_price |-> 900,
                           avg_price |-> frac(1000, 1)]>>)]]

\* the per-market files are what generate_cvs makes of the raw files
InitTable ==
    /\ \E b1 \in TableBodies("5ka"), b2 \in TableBodies("magnit"),
          b3 \in TableBodies("lenta"), b4 \in TableBodies("dixi") :
           data = [d \in Dirs |->
                      generate_cvs(
                          [json |-> [m \in Markets |->
                                        CASE m = "5ka"    -> b1
                                          [] m = "magnit" -> b2
                                          [] m = "lenta"  -> b3
                                          [] m = "dixi"   -> b4],
                           cvs  |-> EmptyDir.cvs],
                          queries[1]).dir]
    /\ report = TableReport
    /\ today = 1
    /\ pc = [at |-> "create_table", q |-> 0]
    /\ fetched = [d \in Dirs |-> {}]
    /\ call = NoCall
    /\ result = NoCall
    /\ minute = 0
    /\ sched = NoServices
    /\ db = NoDatabase

NextTable == do_create_table

SpecTable == InitTable /\ [][NextTable]_vars

(***************************************************************************)
(* The extractors as functions of the payload                              *)
(***************************************************************************)
\* the values a price field and a name field are drawn from
PriceValues == {Absent, None, Num(0), Num(5), Str(<<"7">>), Str(<<"a">>)}

NameValues == {Absent, Str(<<"a_">>)}

Entries(m) ==
    CASE m = "5ka" ->
            {[k |-> "dict", name |-> n, prices |-> p] :
                n \in NameValues,
                p \in {Absent, None} \cup
                      {[k |-> "dict", regular |-> r, discount |-> d] :
                          r \in {Absent, Num(5), Str(<<"7">>), Str(<<"a">>)},
                          d \in {Absent, None, Num(0), Num(5), Str(<<"a">>)}}}
      [] m = "dixi" ->
            {[k |-> "dict", title |-> n, priceSimple |-> p] :
                n \in NameValues, p \in PriceValues}
      [] m = "magnit" ->
            {[k |-> "dict", name |-> n, price |-> p] :
                n \in NameValues, p \in PriceValues}
      [] m = "lenta" ->
            {[k |-> "dict", name |-> n, prices |-> p] :
                n \in NameValues,
                p \in {Absent, None} \cup
                      {[k |-> "dict", price |-> v] : v \in PriceValues}}

\* the lists of up to MaxEntries entries
EntryLists(m) == UNION {[1..n -> Entries(m)] : n \in 0..MaxEntries}

\* the payloads of market m: the top-level key is absent, or holds a list
Payloads(m) ==
    CASE m = "5ka" ->
            {Payload(Absent, Absent)} \cup
            {Payload(List(l), Absent) : l \in EntryLists(m)}
      [] m = "dixi" ->
            {List(<<>>), List(<<[k |-> "dict", cards |-> Absent]>>)} \cup
            {List(<<[k |-> "dict", cards |-> List(l)]>>) : l \in EntryLists(m)}
      [] m \in {"magnit", "lenta"} ->
            {Payload(Absent, Absent)} \cup
            {Payload(Absent, List(l)) : l \in EntryLists(m)}

InitExtract ==
    /\ data = [d \in Dirs |-> EmptyDir]
    /\ report = NoReport
    /\ today = 1
    /\ pc = Idle
    /\ fetched = [d \in Dirs |-> {}]
    /\ \E m \in Markets : \E d \in Payloads(m) :
           call = [fn |-> "parser", market |-> m, data |-> d]
    /\ result = NoCall
    /\ minute = 0
    /\ sched = NoServices
    /\ db = NoDatabase

call_parser ==
    /\ call.fn = "parser"
    /\ result = NoCall
    /\ result' = [fn |-> "parser", out |-> parser(call.market, call.data)]
    /\ UNCHANGED <<data, report, today, pc, fetched, call, minute, sched, db>>

NextExtract == call_parser

SpecExtract == InitExtract /\ [][NextExtract]_vars

(***************************************************************************)
(* filter_for_product as a function of its arguments                       *)
(***************************************************************************)
\* products of a list and keywords of a list handed to the filter
MaxProducts == 2

MaxWords == 2

\* "maslo 180g_", "maslo 180 g_r_", "maslo 180g", "Maslo 200G_", "maslo",
\* "moloko 200m_l_" (units in Cyrillic but for the third)
FilterNames ==
    { <<"m_", "a_", "s_", "l_", "o_", " ", "1", "8", "0", "g_">>,
      <<"m_", "a_", "s_", "l_", "o_", " ", "1", "8", "0", " ", "g_", "r_">>,
      <<"m_", "a_", "s_", "l_", "o_", " ", "1", "8", "0", "g">>,
      <<"M_", "a_", "s_", "l_", "o_", " ", "2", "0", "0", "G_">>,
      <<"m_", "a_", "s_", "l_", "o_">>,
      <<"m_", "o_", "l_", "o_", "k_", "o_", " ", "2", "0", "0", "m_", "l_">> }

\* "maslo", "180g_", "180g", "180", "200m_l_", "200ml"
FilterWords ==
    { <<"m_", "a_", "s_", "l_", "o_">>,
      <<"1", "8", "0", "g_">>,
      <<"1", "8", "0", "g">>,
      <<"1", "8", "0">>,
      <<"2", "0", "0", "m_", "l_">>,
      <<"2", "0", "0", "m", "l">> }

InitFilter ==
    /\ data = [d \in Dirs |-> EmptyDir]
    /\ report = NoReport
    /\ today = 1
    /\ pc = Idle
    /\ fetched = [d \in Dirs |-> {}]
    /\ \E products \in UNION {[1..n -> {[name |-> Str(x), price |-> 100] :
                                          x \in FilterNames}] :
                                 n \in 0..MaxProducts} :
       \E positive \in UNION {[1..n -> FilterWords] : n \in 0..MaxWords} :
       \E negative \in {<<>>, negative_promt} :
           call = [fn |-> "filter_for_product", products |-> products,
                   positive_promt |-> positive, negative_promt |-> negative]
    /\ result = NoCall
    /\ minute = 0
    /\ sched = NoServices
    /\ db = NoDatabase

call_filter_for_product ==
    /\ call.fn = "filter_for_product"
    /\ result = NoCall
    /\ result' = [fn  |-> "filter_for_product",
                  out |-> filter_for_product(call.products, call.positive_promt,
                                             call.negative_promt)]
    /\ UNCHANGED <<data, report, today, pc, fetched, call, minute, sched, db>>

NextFilter == call_filter_for_product

SpecFilter == InitFilter /\ [][NextFilter]_vars

(***************************************************************************)
(* app.services.scheduler: SchedulerService                                *)
(***************************************************************************)
\* date.weekday(): Monday is 0.  The day of the week of a date by Sakamoto's
\* rule, which counts from Sunday.
month_offsets == <<0, 3, 2, 5, 0, 3, 5, 1, 4, 6, 2, 4>>

weekday(d) ==
    LET y == IF d.month < 3 THEN d.year - 1 ELSE d.year
        from_sunday == (y + (y \div 4) - (y \div 100) + (y \div 400)
                          + month_offsets[d.month] + d.day) % 7
    IN  (from_sunday + 6) % 7

MinutesPerDay == 24 * 60

\* strftime("%H:%M") of a minute of the day
strftime_hm(m) ==
    << ToString((m \div 60) \div 10), ToString((m \div 60) % 10), ":",
       ToString((m % 60) \div 10), ToString((m % 60) % 10) >>

\* datetime.strptime(time_str, "%H:%M") does not raise ValueError: one or
\* two digits of an hour up to 23, a colon, one or two digits of a minute up
\* to 59
strptime_hm_ok(s) ==
    \E c \in DOMAIN s :
        LET h == SubSeq(s, 1, c - 1)
            m == SubSeq(s, c + 1, Len(s))
        IN  /\ s[c] = ":"
            /\ Len(h) \in 1..2 /\ Len(m) \in 1..2
            /\ \A i \in DOMAIN h : IsDigit(h[i])
            /\ \A i \in DOMAIN m : IsDigit(m[i])
            /\ digits_value(h) <= 23 /\ digits_value(m) <= 59

\* the seconds self._timesleep starts with, is set to when day_of_week or
\* time_str is missing, and the seconds slept after an exception
DefaultTimesleep == 60

DayTimesleep == 60 * 60 * 24

ErrorSleep == 60

\* asyncio.sleep(seconds), counted in minutes of the clock
sleep_minutes(seconds) == seconds \div 60

\* SchedulerService(func).  at is the position of the service's task: "new",
\* "set" (set_scheduler returned), "raised" (set_scheduler raised), "sleep"
\* (in asyncio.sleep until the minute wake), "func" (awaiting func), "gone"
\* (the task ended).  calls lists the minutes at which func was invoked,
\* errors counts the logging.error calls of schedule_checker.
SchedulerService(func) ==
    [func |-> func, day |-> None, timesleep |-> DefaultTimesleep,
     running |-> FALSE, schedule_time |-> None, schedule_day |-> None,
     at |-> "new", wake |-> 0, calls |-> <<>>, errors |-> 0]

\* set_scheduler(day, day_of_week, time_str)
set_scheduler(service, day, day_of_week, time_str) ==
    IF truthy(time_str) /\ ~strptime_hm_ok(time_str.s)
    THEN [service EXCEPT !.at = "raised"]
    ELSE [service EXCEPT
             !.day = day,
             !.schedule_day = day_of_week,
             !.schedule_time = time_str,
             !.timesleep = IF ~(truthy(day_of_week) /\ truthy(time_str))
                           THEN DayTimesleep ELSE @,
             !.at = "set"]

\* the check that ignores the day of the month
should_without_day(service, date, m) ==
    /\ service.schedule_day.k # "none" => Num(weekday(date)) = service.schedule_day
    /\ service.schedule_time.k # "none" => Str(strftime_hm(m)) = service.schedule_time

\* should, as schedule_checker computes it from current_time
should(service, date, m) ==
    /\ service.day.k # "none" => Num(date.day) = service.day
    /\ service.schedule_day.k # "none" => Num(weekday(date)) = service.schedule_day
    /\ service.schedule_time.k # "none" => Str(strftime_hm(m)) = service.schedule_time

\* an exception of func that leaves the loop
on_exception_leaves(service, t) ==
    [service EXCEPT !.running = FALSE, !.at = "gone", !.errors = @ + 1]

\* except Exception: logging.error, then asyncio.sleep(60); the loop goes on
on_exception(service, t) ==
    [service EXCEPT !.at = "sleep", !.wake = t + sleep_minutes(ErrorSleep),
                    !.errors = @ + 1]

(***************************************************************************)
(* One SchedulerService and its schedule_checker task                      *)
(***************************************************************************)
\* the days the clock runs for, the minutes func may take, and the number of
\* times func may raise
SchedDays == 7

MaxDuration == 1

MaxErrors == 2

\* the minutes the scrape may take: python table.py, run by parse
MaxScrape == 11

\* the minutes the clock advances while the event loop is inside func:
\* parse holds the loop in subprocess.run until the script ends; the report
\* functions give the loop back at every await and hold it for no minute
Durations(func) ==
    CASE func = "parse" -> 0..MaxScrape
      [] func \in {"send_report_to_week", "send_report_to_month"} -> {0}
      [] OTHER -> 0..MaxDuration

\* the minutes since 00:00 of the first day
clock == (today - 1) * MinutesPerDay + minute

day_of(t) == t \div MinutesPerDay + 1

minute_of(t) == t % MinutesPerDay

\* the arguments of set_scheduler: "09:50", "10:00", and "24:00", which is
\* no time
Days == {None, Num(1)}

DaysOfWeek == {None, Num(0), Num(2), Num(3)}

Times ==
    {None, Str(<<"0", "9", ":", "5", "0">>), Str(<<"1", "0", ":", "0", "0">>),
     Str(<<"2", "4", ":", "0", "0">>)}

\* the minutes of the first day at which the program starts: 00:00, 10:00,
\* 12:00
StartMinutes == {0, 600, 720}

InitSched ==
    /\ data = [d \in Dirs |-> EmptyDir]
    /\ report = NoReport
    /\ today = 1
    /\ pc = Idle
    /\ fetched = [d \in Dirs |-> {}]
    /\ call = NoCall
    /\ result = NoCall
    /\ minute \in StartMinutes
    /\ sched = [s \in {"scheduler"} |-> SchedulerService("func")]
    /\ db = NoDatabase

\* main: scheduler.set_scheduler(...), with one argument given at least
do_set_scheduler ==
    /\ \E s \in DOMAIN sched :
           /\ sched[s].at = "new"
           /\ \E day \in Days : \E day_of_week \in DaysOfWeek :
              \E time_str \in Times :
                  /\ <<day, day_of_week, time_str>> # <<None, None, None>>
                  /\ sched' = [sched EXCEPT
                                  ![s] = set_scheduler(@, day, day_of_week, time_str)]
    /\ UNCHANGED <<data, report, today, pc, fetched, call, result, minute, db>>

\* main: asyncio.create_task(scheduler.schedule_checker()); the task sets
\* _running and comes to its first check
start_checker ==
    /\ \E s \in DOMAIN sched :
           /\ sched[s].at = "set"
           /\ sched' = [sched EXCEPT ![s].running = TRUE, ![s].at = "sleep",
                                     ![s].wake = clock]
    /\ UNCHANGED <<data, report, today, pc, fetched, call, result, minute, db>>

\* the event loop is not held by a task that is inside parse
loop_free == \A s \in DOMAIN sched : ~(sched[s].at = "func" /\ sched[s].func = "parse")

\* one pass of the loop up to its await: func is invoked, or the sleep begins
check ==
    /\ loop_free
    /\ \E s \in DOMAIN sched :
           /\ sched[s].running
           /\ sched[s].at = "sleep"
           /\ sched[s].wake <= clock
           /\ IF should(sched[s], now(today), minute)
              THEN sched' = [sched EXCEPT ![s].at = "func",
                                          ![s].calls = Append(@, clock)]
              ELSE sched' = [sched EXCEPT
                                ![s].wake = clock + sleep_minutes(sched[s].timesleep)]
    /\ UNCHANGED <<data, report, today, pc, fetched, call, result, minute, db>>

\* func returns after some minutes; asyncio.sleep(self._timesleep) begins
func_returns ==
    /\ \E s \in DOMAIN sched : \E d \in Durations(sched[s].func) :
           /\ sched[s].at = "func"
           /\ day_of(clock + d) <= SchedDays
           /\ today' = day_of(clock + d)
           /\ minute' = minute_of(clock + d)
           /\ sched' = [sched EXCEPT
                           ![s].at = "sleep",
                           ![s].wake = clock + d + sleep_minutes(sched[s].timesleep)]
    /\ UNCHANGED <<data, report, pc, fetched, call, result, db>>

\* func raises an Exception after some minutes
func_raises ==
    /\ \E s \in DOMAIN sched : \E d \in Durations(sched[s].func) :
           /\ sched[s].at = "func"
           /\ sched[s].errors < MaxErrors
           /\ day_of(clock + d) <= SchedDays
           /\ today' = day_of(clock + d)
           /\ minute' = minute_of(clock + d)
           /\ sched' = [sched EXCEPT ![s] = on_exception(@, clock + d)]
    /\ UNCHANGED <<data, report, pc, fetched, call, result, db>>

\* every task sleeps: time passes until the first sleep ends
pass_time ==
    /\ DOMAIN sched # {}
    /\ \A s \in DOMAIN sched : sched[s].at = "sleep" /\ sched[s].wake > clock
    /\ LET t == CHOOSE t \in {sched[s].wake : s \in DOMAIN sched} :
                    \A s \in DOMAIN sched : t <= sched[s].wake
       IN  /\ day_of(t) <= SchedDays
           /\ today' = day_of(t)
           /\ minute' = minute_of(t)
    /\ UNCHANGED <<data, report, pc, fetched, call, result, sched, db>>

NextSched ==
    \/ do_set_scheduler
    \/ start_checker
    \/ check
    \/ func_returns
    \/ func_raises
    \/ pass_time

SpecSched == InitSched /\ [][NextSched]_vars

(***************************************************************************)
(* main: the three services and their tasks on one event loop              *)
(***************************************************************************)
InitMain ==
    /\ data = [d \in Dirs |-> EmptyDir]
    /\ report = NoReport
    /\ today = 1
    /\ pc = Idle
    /\ fetched = [d \in Dirs |-> {}]
    /\ call = NoCall
    /\ result = NoCall
    /\ minute \in StartMinutes
    /\ sched = [s \in {"scheduler", "parse_shed", "send_shed"} |->
                   SchedulerService(CASE s = "scheduler" -> "send_report_to_month"
                                      [] s = "parse_shed" -> "parse"
                                      [] s = "send_shed"  -> "send_report_to_week")]
    /\ db = NoDatabase

\* main: the three set_scheduler calls
main_set_scheduler ==
    /\ \A s \in DOMAIN sched : sched[s].at = "new"
    /\ sched' = [s \in DOMAIN sched |->
           CASE s = "scheduler" ->
                   set_scheduler(sched[s], Num(1), None,
                                 Str(<<"1", "0", ":", "0", "0">>))
             [] s = "parse_shed" ->
                   set_scheduler(sched[s], None, Num(2),
                                 Str(<<"0", "9", ":", "5", "0">>))
             [] s = "send_shed" ->
                   set_scheduler(sched[s], None, Num(2),
                                 Str(<<"1", "0", ":", "0", "0">>))]
    /\ UNCHANGED <<data, report, today, pc, fetched, call, result, minute, db>>

NextMain ==
    \/ main_set_scheduler
    \/ start_checker
    \/ check
    \/ func_returns
    \/ func_raises
    \/ pass_time

SpecMain == InitMain /\ [][NextMain]_vars

(***************************************************************************)
(* main.send_message_all_user_and_channel and the handlers that fill the   *)
(* database                                                                *)
(***************************************************************************)
\* the users and the channels that may turn up
MaxUsers == 2

MaxChannels == 2

\* a row of the users table, and a row of the channels table: is_active has
\* the default True
User(user_id) == [user_id |-> user_id]

Channel(channel_id) == [channel_id |-> channel_id, is_active |-> TRUE]

\* Session(): a new session, which holds no object
Session == [objects |-> <<>>]

\* session.add(row); session.commit() on a table
add_commit(table, row) == Append(table, row)

\* session.commit(): the rows of the objects the session holds are written
commit(database, session) ==
    [database EXCEPT
        !.channels = [r \in DOMAIN @ |->
            IF \E o \in DOMAIN session.objects :
                   session.objects[o].channel_id = @[r].channel_id
            THEN session.objects[CHOOSE o \in DOMAIN session.objects :
                     session.objects[o].channel_id = @[r].channel_id]
            ELSE @[r]]]

\* session.query(Channel).filter(Channel.is_active == True).all()
active_channels(database) ==
    SelectSeq(database.channels, LAMBDA c : c.is_active)

\* bot.send_message returns, raises an exception whose text holds "bot was
\* blocked by the user", or raises another exception
SendOutcomes == {"sent", "blocked", "failed"}

\* the loop over the users from user i on: an exception is logged
RECURSIVE user_loop(_, _, _, _)
user_loop(users, outcome, i, attempts) ==
    IF i > Len(users) THEN attempts
    ELSE user_loop(users, outcome, i + 1,
                   Append(attempts, [to |-> "user", chat_id |-> users[i].user_id,
                                     outcome |-> outcome[i]]))

\* the loop over the channels read at the start, from channel i on.  The
\* objects are detached since session.close(); on "blocked" is_active is set
\* on the object and a new session is committed.
RECURSIVE channel_loop(_, _, _, _)
channel_loop(channels, outcome, i, acc) ==
    IF i > Len(channels) THEN acc
    ELSE LET blocked == outcome[i] = "blocked"
         IN  channel_loop(
                 IF blocked THEN [channels EXCEPT ![i].is_active = FALSE]
                 ELSE channels,
                 outcome, i + 1,
                 [attempts |-> Append(acc.attempts,
                                   [to |-> "channel",
                                    chat_id |-> channels[i].channel_id,
                                    outcome |-> outcome[i]]),
                  database |-> IF blocked THEN commit(acc.database, Session)
                               ELSE acc.database])

\* send_message_all_user_and_channel(message), the sends ending as outcome
\* says
send_message_all_user_and_channel(database, outcome) ==
    LET users    == database.users
        channels == active_channels(database)
    IN  channel_loop(channels, outcome.channels, 1,
                     [attempts |-> user_loop(users, outcome.users, 1, <<>>),
                      database |-> database])

InitBroadcast ==
    /\ data = [d \in Dirs |-> EmptyDir]
    /\ report = NoReport
    /\ today = 1
    /\ pc = Idle
    /\ fetched = [d \in Dirs |-> {}]
    /\ call = NoCall
    /\ result = NoCall
    /\ minute = 0
    /\ sched = NoServices
    /\ db = NoDatabase

\* handlers.user.cmd_start: a user not yet stored is added
cmd_start ==
    /\ \E user_id \in 1..MaxUsers :
           db' = IF \E u \in DOMAIN db.users : db.users[u].user_id = user_id
                 THEN db
                 ELSE [db EXCEPT !.users = add_commit(@, User(user_id))]
    /\ UNCHANGED <<data, report, today, pc, fetched, call, result, minute, sched>>

\* handlers.channel.handle_my_chat_member_update: the bot is made an
\* administrator of a channel; a channel not yet stored is added
handle_my_chat_member_update ==
    /\ \E channel_id \in 1..MaxChannels :
           db' = IF \E c \in DOMAIN db.channels :
                        db.channels[c].channel_id = channel_id
                 THEN db
                 ELSE [db EXCEPT !.channels = add_commit(@, Channel(channel_id))]
    /\ UNCHANGED <<data, report, today, pc, fetched, call, result, minute, sched>>

\* a report is broadcast (send_report_to_week, send_report_to_month)
broadcast ==
    /\ \E users \in [DOMAIN db.users -> SendOutcomes \ {"blocked"}] :
       \E channels \in [DOMAIN active_channels(db) -> SendOutcomes] :
           LET r == send_message_all_user_and_channel(db,
                        [users |-> users, channels |-> channels])
           IN  /\ db' = r.database
               /\ result' = [fn |-> "send_message_all_user_and_channel",
                             attempts |-> r.attempts]
    /\ UNCHANGED <<data, report, today, pc, fetched, call, minute, sched>>

NextBroadcast ==
    \/ cmd_start
    \/ handle_my_chat_member_update
    \/ broadcast

SpecBroadcast == InitBroadcast /\ [][NextBroadcast]_vars

(***************************************************************************)
(* main.send_report_to_month                                               *)
(***************************************************************************)
\* months: the names of the months, of the keys 1 to 12
months ==
    <<"yanvar_", "fevral_", "mart", "aprel_", "maj_", "iyun_", "iyul_",
      "avgust", "sentyabr_", "oktyabr_", "noyabr_", "dekabr_">>

\* send_report_to_month() on the day date: months[number] raises KeyError for
\* a number that is no key; an exception of get_text_month leaves the
\* function before anything is sent
send_report_to_month(rep, order, database, outcome, date) ==
    LET number == date.month - 1
    IN  IF number \notin DOMAIN months THEN Raised("KeyError")
        ELSE LET text == get_text_month(rep, order, number, date)
             IN  IF text.raised THEN text
                 ELSE [raised  |-> FALSE,
                       title   |-> [month |-> months[number], year |-> date.year],
                       summary |-> text.summary,
                       text    |-> text.text,
                       sent    |-> send_message_all_user_and_channel(database,
                                                                     outcome)]

\* the last day of the clock on which the monthly report is triggered
MaxMonthDay == 34

\* the days of the run on which the scheduler of the monthly report matches:
\* the first days of a month
TriggerDays == {t \in 1..MaxMonthDay : now(t).day = 1}

\* the days the rows of the history files were written on when the report is
\* triggered on day t: the first two days of the run, the day before, the day
RowDays(t) == {u \in 1..t : u <= 2 \/ u >= t - 1}

\* the history files of one product of up to n rows written on days of the
\* set days, in the order of their dates
RECURSIVE HistoriesOn(_, _, _, _)
HistoriesOn(label, values, days, n) ==
    IF n = 0 THEN {<<>>}
    ELSE LET shorter == HistoriesOn(label, values, days, n - 1)
             later(h) ==
                 {u \in days :
                     h = <<>> \/ \E w \in {x \in days : x <= u} :
                                    h[Len(h)].date = strftime_dmy(date_of(w))}
         IN  shorter \cup
             UNION {{Append(h, [date      |-> strftime_dmy(date_of(t)),
                                product   |-> label,
                                min_price |-> v.min_price,
                                avg_price |-> v.avg_price]) :
                        v \in values, t \in later(h)} :
                    h \in {x \in shorter : Len(x) = n - 1}}

\* the report directories the monthly report is triggered on
MonthReports(t) ==
    {NoReport} \cup
    {[exists |-> TRUE,
      files  |-> [key \in Keys |-> IF key = EggKey THEN e
                                   ELSE IF key = ButterKey THEN b ELSE NoFile]] :
         e \in {NoFile} \cup {Csv(h) : h \in HistoriesOn("yajtso", RowValues,
                                                        RowDays(t), MaxHistory)},
         b \in {NoFile} \cup {Csv(h) : h \in HistoriesOn("maslo",
                     {v \in RowValues : v.avg_price.num = 1000},
                     RowDays(t), MaxHistory)}}

\* the tables the report is sent to: empty, or one user and one channel
MonthDatabases ==
    {NoDatabase, [users |-> <<User(1)>>, channels |-> <<Channel(1)>>]}

InitMonth ==
    /\ data = [d \in Dirs |-> EmptyDir]
    /\ pc = Idle
    /\ fetched = [d \in Dirs |-> {}]
    /\ today \in TriggerDays
    /\ report \in MonthReports(today)
    /\ \E order \in Listings(report) :
           call = [fn |-> "send_report_to_month", order |-> order]
    /\ result = NoCall
    /\ minute = 10 * 60
    /\ sched = NoServices
    /\ db \in MonthDatabases

\* the scheduler invokes send_report_to_month
call_send_report_to_month ==
    /\ call.fn = "send_report_to_month"
    /\ result = NoCall
    /\ \E users \in [DOMAIN db.users -> SendOutcomes \ {"blocked"}] :
       \E channels \in [DOMAIN active_channels(db) -> SendOutcomes] :
           LET r == send_report_to_month(report, call.order, db,
                        [users |-> users, channels |-> channels], now(today))
           IN  /\ result' = [fn |-> "send_report_to_month", out |-> r]
               /\ db' = IF r.raised THEN db ELSE r.sent.database
    /\ UNCHANGED <<data, report, today, pc, fetched, call, minute, sched>>

NextMonth == call_send_report_to_month

SpecMonth == InitMonth /\ [][NextMonth]_vars

(***************************************************************************)
(* Claims                                                                  *)
(***************************************************************************)
IsPrefix(s, t) == Len(s) <= Len(t) /\ SubSeq(t, 1, Len(s)) = s

\* the step of the script that runs create_table
CreateTableStep == pc.at = "create_table" /\ pc'.at = "idle"

\* C1: history is append-only.  Over every step of the program the rows of
\* an item's history file stay an unchanged prefix of its rows afterwards; a
\* run of create_table leaves the file as it was or adds exactly one row at
\* the end, and a file that did not exist is created with one row.
C1_AppendOnly ==
    [][\A key \in Keys :
          LET old == report.files[key]
              new == report'.files[key]
          IN  /\ old.k = "csv" =>
                    /\ new.k = "csv"
                    /\ IsPrefix(old.rows, new.rows)
                    /\ Len(new.rows) <= Len(old.rows) + 1
              /\ old.k = "nofile" =>
                    \/ new.k = "nofile"
                    \/ new.k = "csv" /\ Len(new.rows) = 1]_vars

\* a history file that was appended to after it was created
C1_Witness ==
    \E key \in Keys :
        /\ report.files[key].k = "csv"
        /\ Len(report.files[key].rows) >= 2
        /\ report.files[key].rows[1] # report.files[key].rows[2]

\* market m yielded a match for the query in this run of the script: its
\* payload was written in this run and the filtered list is not empty
yields_match(q, m) ==
    LET d == folder_path(q)
    IN  /\ m \in fetched[d]
        /\ LET products == parser(m, data[d].json[m])
           IN  /\ ~products.raised
               /\ LET f == filter_for_product(products.value, split(q),
                                              negative_promt)
                  IN  ~f.raised /\ f.value # <<>>

\* C2: when no market yields a match for a basket item in a run, that run's
\* create_table appends no row to the item's history file.
C2_NoMatchNoRow ==
    [][CreateTableStep =>
          \A i \in DOMAIN queries : \A key \in Keys :
              (/\ folder_path(queries[i]) \in product_dirs(data, key)
               /\ \A m \in Markets : ~yields_match(queries[i], m))
              => report'.files[key] = report.files[key]]_vars

\* the markets whose request fails, by what the call was given
failing == {m \in Markets : call.outcome[m].k # "json"}

\* C3: in get_query a failure of one market (request error, status other
\* than 200, a body that is no JSON) never aborts the others: whatever the
\* set of failing markets, every market is searched, and the raw file of
\* every market that answers with JSON holds that answer.
C3_FailuresContained ==
    (result.fn = "get_query" /\ call.loadable = ConfigFiles) =>
        /\ ~result.raised
        /\ result.queried = Markets
        /\ \A m \in Markets \ failing :
               m \in result.written /\ result.json[m] = call.outcome[m].body
        /\ \A m \in failing :
               m \notin result.written /\ result.json[m] = call.json[m]

\* the first market fails and a later one is written
C3_Witness ==
    /\ result.fn = "get_query"
    /\ call.loadable = ConfigFiles
    /\ "5ka" \in failing /\ "lenta" \in failing
    /\ result.written = {"magnit", "dixi"}

\* C4: when the configuration file of exactly one market does not load,
\* get_query still searches the other markets and writes the raw file of
\* each of them that answers with JSON.
C4_ConfigErrorContained ==
    \A bad \in Markets :
        (result.fn = "get_query" /\ call.loadable = ConfigFiles \ {bad}) =>
            \A m \in Markets \ {bad} :
                /\ m \in result.queried
                /\ call.outcome[m].k = "json" =>
                       m \in result.written
                       /\ result.json[m] = call.outcome[m].body

\* C8: aggregation is not idempotent.  When create_table runs on the date of
\* the last row of an item's history file and filtered data is present for
\* the item, it adds a second row with that date directly after it.
C8_NotIdempotent ==
    [][CreateTableStep =>
          \A key \in Keys : \A d \in product_dirs(data, key) :
              LET old == report.files[key]
                  new == report'.files[key]
              IN  (/\ all_data(data[d]) # <<>>
                   /\ old.k = "csv"
                   /\ old.rows[Len(old.rows)].date = strftime_dmy(now(today)))
                  => /\ new.k = "csv"
                     /\ Len(new.rows) = Len(old.rows) + 1
                     /\ IsPrefix(old.rows, new.rows)
                     /\ new.rows[Len(new.rows)].date
                            = old.rows[Len(old.rows)].date]_vars

\* two rows of one date, one directly after the other
C8_Witness ==
    \E key \in Keys :
        /\ report.files[key].k = "csv"
        /\ \E n \in 1..(Len(report.files[key].rows) - 1) :
               report.files[key].rows[n].date = report.files[key].rows[n + 1].date

\* the rows of the history file of a listed key
rows_at(key) == report.files[key].rows

\* the line of the report for a key
lines_of(key) ==
    {i \in DOMAIN result.out.text : result.out.text[i].key = key}

\* no listed file makes get_text divide by a previous average of zero
NoZeroPrevious ==
    \A i \in DOMAIN call.order :
        LET rows == rows_at(call.order[i])
        IN  Len(rows) >= 2 => rows[Len(rows) - 1].avg_price.num # 0

\* C5: a history file with fewer than two rows (one row, or none) is handled
\* by get_text without raising: it returns the report, and the change of
\* that item is the placeholder, not a value computed from some row.
C5_FewRowsHandled ==
    (result.fn = "get_text" /\ report.exists /\ NoZeroPrevious) =>
        /\ ~result.out.raised
        /\ \A i \in DOMAIN call.order :
               Len(rows_at(call.order[i])) < 2 =>
                   \A l \in lines_of(call.order[i]) :
                       result.out.text[l].percent = Percent0

\* the per-item denominator of the call is zero: the average of the row
\* before the last (get_text), of the first and of the last row of a month
\* of two rows at least (get_text_month)
ZeroDenominator(key) ==
    LET rows == rows_at(key)
    IN  IF call.fn = "get_text"
        THEN Len(rows) >= 2 /\ rows[Len(rows) - 1].avg_price.num = 0
        ELSE LET window == filtered_data(rows, call.month, now(today).year)
             IN  /\ Len(window) >= 2
                 /\ window[1].avg_price.num = 0
                 /\ window[Len(window)].avg_price.num = 0

\* every listed file has the rows the call reads: one row for get_text, one
\* row of the month for get_text_month
RowsPresent ==
    \A i \in DOMAIN call.order :
        LET rows == rows_at(call.order[i])
        IN  IF call.fn = "get_text" THEN rows # <<>>
            ELSE filtered_data(rows, call.month, now(today).year) # <<>>

\* C6: a zero denominator never makes a report function raise.  When the
\* previous average of an item is zero, get_text and get_text_month return
\* the report, and the change of that item is zero or the placeholder.
C6_ZeroDenominatorGuarded ==
    (result.fn \in {"get_text", "get_text_month"} /\ report.exists /\ RowsPresent) =>
        \A i \in DOMAIN call.order :
            ZeroDenominator(call.order[i]) =>
                /\ ~result.out.raised
                /\ \A l \in lines_of(call.order[i]) :
                       result.out.text[l].percent.tenths = 0

\* the per-file minimum and mean of the directory's csv files that have rows
file_stats(dir) ==
    LET with_rows == SelectSeq(parsers,
                         LAMBDA m : dir.cvs[m].k = "csv" /\ dir.cvs[m].rows # <<>>)
    IN  [f \in DOMAIN with_rows |->
            LET rows == dir.cvs[with_rows[f]].rows
                prices == [r \in DOMAIN rows |-> rows[r].price]
            IN  [min |-> CHOOSE p \in {prices[r] : r \in DOMAIN prices} :
                             \A r \in DOMAIN prices : p <= prices[r],
                 avg |-> frac(sum_ints(prices), Len(prices))]]

\* C7: the row create_table adds for an item holds the minimum price over
\* all rows of the per-market files that have rows, and the unweighted mean
\* of the averages of those files; per-file averages 10, 12, 11 and minimums
\* 9, 9, 10 give the minimum 9 and the average 11 (roubles).
C7_MinAndMeanOfMeans ==
    [][CreateTableStep =>
          \A key \in Keys : \A d \in product_dirs(data, key) :
              LET stats == file_stats(data[d])
                  new   == report'.files[key]
                  row   == new.rows[Len(new.rows)]
                  total == sum_fracs([f \in DOMAIN stats |-> stats[f].avg])
              IN  stats # <<>> =>
                     /\ new.k = "csv"
                     /\ Len(new.rows) = Len(rows_of(report.files[key])) + 1
                     /\ \A f \in DOMAIN stats : row.min_price <= stats[f].min
                     /\ \E f \in DOMAIN stats : row.min_price = stats[f].min
                     /\ row.avg_price.num * total.den * Len(stats)
                            = total.num * row.avg_price.den
                     /\ ({stats[f] : f \in DOMAIN stats}
                            = {[min |-> 900,  avg |-> frac(1000, 1)],
                               [min |-> 900,  avg |-> frac(1200, 1)],
                               [min |-> 1000, avg |-> frac(1100, 1)]}
                         => row.min_price = 900 /\ row.avg_price = frac(1100, 1))]_vars

\* the row of the example: three files with rows and a file without
C7_Witness ==
    \E d \in Dirs :
        /\ pc = Idle
        /\ all_data(data[d]) = <<[min_price |-> 900,  avg_price |-> frac(1000, 1)],
                                 [min_price |-> 900,  avg_price |-> frac(1200, 1)],
                                 [min_price |-> 1000, avg_price |-> frac(1100, 1)]>>
        /\ data[d].cvs["dixi"] = Csv(<<>>)
        /\ report.files[EggKey].k = "csv"
        /\ LET rows == report.files[EggKey].rows
           IN  rows[Len(rows)].min_price = 900
               /\ rows[Len(rows)].avg_price = frac(1100, 1)

\* the price field an entry of market m is read from
price_field(m, entry) ==
    CASE m = "5ka" ->
            IF entry.prices.k # "dict" THEN Absent
            ELSE IF truthy(get(entry.prices.discount)) THEN entry.prices.discount
            ELSE entry.prices.regular
      [] m = "dixi"   -> entry.priceSimple
      [] m = "magnit" -> entry.price
      [] m = "lenta"  -> IF entry.prices.k # "dict" THEN Absent
                         ELSE entry.prices.price

\* a number, or a string of digits
numeric(v) ==
    \/ v.k = "num"
    \/ v.k = "str" /\ v.s # <<>> /\ \A i \in DOMAIN v.s : IsDigit(v.s[i])

\* the entries of the payload of the call
entries_of_call ==
    LET d == call.data
        l == IF call.market = "5ka" THEN get(d.products)
             ELSE IF call.market = "dixi"
                  THEN (IF d.items = <<>> THEN None ELSE get(d.items[1].cards))
                  ELSE get(d.items)
    IN  IF l.k = "list" THEN l.items ELSE <<>>

\* C9: whatever the payload, every pair an extractor emits has a numeric
\* price that is not negative, and an entry whose price is missing or not
\* numeric is dropped: it is not emitted with the price zero and does not
\* make the extractor raise.
C9_PricesNumericOrDropped ==
    result.fn = "parser" =>
        /\ ~result.out.raised
        /\ \A i \in DOMAIN result.out.value : result.out.value[i].price >= 0
        /\ Len(result.out.value)
               <= Cardinality({i \in DOMAIN entries_of_call :
                                  numeric(price_field(call.market,
                                                      entries_of_call[i]))})

\* the unit suffixes: Cyrillic form and canonical form
UnitForms ==
    { <<<<"g_">>, <<"g">>>>, <<<<"m_", "l_">>, <<"m", "l">>>>,
      <<<<"k_", "g_">>, <<"k", "g">>>> }

\* digits followed by the suffix
has_suffix(word, suffix) ==
    /\ Len(word) > Len(suffix)
    /\ SubSeq(word, Len(word) - Len(suffix) + 1, Len(word)) = suffix
    /\ \A i \in 1..(Len(word) - Len(suffix)) : IsDigit(word[i])

\* the keyword with its unit suffix in the other form; the keyword itself
\* when it has none
swap_unit(word) ==
    IF \E u \in UnitForms : has_suffix(word, u[1])
    THEN LET u == CHOOSE u \in UnitForms : has_suffix(word, u[1])
         IN  SubSeq(word, 1, Len(word) - Len(u[1])) \o u[2]
    ELSE IF \E u \in UnitForms : has_suffix(word, u[2])
    THEN LET u == CHOOSE u \in UnitForms : has_suffix(word, u[2])
         IN  SubSeq(word, 1, Len(word) - Len(u[2])) \o u[1]
    ELSE word

\* C10: writing the unit suffix of one positive keyword in the other form
\* (Cyrillic or canonical) does not change the entries filter_for_product
\* returns.
C10_KeywordUnitForm ==
    result.fn = "filter_for_product" =>
        \A i \in DOMAIN call.positive_promt :
            filter_for_product(call.products,
                [call.positive_promt EXCEPT ![i] = swap_unit(@)],
                call.negative_promt) = result.out

(***************************************************************************)
(* C11: the contract of filter_for_product                                 *)
(***************************************************************************)
\* the keyword is a substring of the name, ignoring case, after the unit
\* normalization of both
contains_normalized(name, word) ==
    re_search(preprocess_query(word), preprocess_query(lower(name)))

\* the entry has all positive keywords and none of the negative ones
entry_wanted(product, positive, negative) ==
    /\ \A w \in DOMAIN positive : contains_normalized(product.name.s, positive[w])
    /\ \A w \in DOMAIN negative : ~contains_normalized(product.name.s, negative[w])

\* C11: filter_for_product returns, in input order, exactly the entries whose
\* name contains all positive keywords and none of the negative keywords,
\* matching by case-insensitive substring after unit normalization of both
\* the name and the keywords; an entry whose name contains a negative keyword
\* with a unit suffix ("200ml" in Cyrillic) is excluded.
C11_FilterContract ==
    (result.fn = "filter_for_product" /\ ~result.out.raised) =>
        result.out.value =
            SelectSeq(call.products,
                      LAMBDA p : entry_wanted(p, call.positive_promt,
                                              call.negative_promt))

(***************************************************************************)
(* C12: the extractors on payloads without the key and on malformed entries *)
(***************************************************************************)
\* the payload of the call lacks the top-level key its extractor reads
lacks_key ==
    LET d == call.data
    IN  CASE call.market = "5ka"  -> d.products.k = "absent"
          [] call.market = "dixi" -> d.items = <<>> \/ d.items[1].cards.k = "absent"
          [] OTHER                -> d.items.k = "absent"

\* the name of an entry, under the key its extractor reads
name_field(m, entry) == IF m = "dixi" THEN entry.title ELSE entry.name

\* the entry has a name and a numeric price
well_formed(m, entry) ==
    name_field(m, entry).k = "str" /\ numeric(price_field(m, entry))

\* C12: an extractor returns the empty sequence without raising when the
\* payload lacks its top-level key, and an entry with a missing name, a
\* missing or non-numeric price or a missing nested price object is skipped
\* alone: the extractor does not raise and emits no pair for that entry.
C12_MalformedEntrySkipped ==
    result.fn = "parser" =>
        /\ ~result.out.raised
        /\ lacks_key => result.out.value = <<>>
        /\ \A i \in DOMAIN result.out.value : result.out.value[i].name.k = "str"
        /\ Len(result.out.value)
               <= Cardinality({i \in DOMAIN entries_of_call :
                                  well_formed(call.market, entries_of_call[i])})

(***************************************************************************)
(* C13: the change of the monthly report                                   *)
(***************************************************************************)
\* the rows of the month of the call in the history file of a key
window_of(key) == filtered_data(rows_at(key), call.month, now(today).year)

\* x < y for two fractions with positive denominators
frac_less(x, y) == x.num * y.den < y.num * x.den

\* the sum of the averages of the last rows of the windows of the listed files
RECURSIVE sum_last(_)
sum_last(order) ==
    IF order = <<>> THEN frac(0, 1)
    ELSE LET window == window_of(order[Len(order)])
         IN  frac_add(sum_last(SubSeq(order, 1, Len(order) - 1)),
                      window[Len(window)].avg_price)

\* C13: in the monthly report the change of an item goes from the first row
\* of the month (the old value) to the last row of the month (the new value):
\* a price that rose during the month gives a change that is not negative
\* and the up arrow, and the basket line shows the sum of the last-row
\* averages.
C13_MonthFirstToLast ==
    (result.fn = "get_text_month" /\ ~result.out.raised) =>
        /\ \A l \in DOMAIN result.out.text :
               LET window == window_of(result.out.text[l].key)
                   first  == window[1].avg_price
                   last   == window[Len(window)].avg_price
               IN  /\ first.num # 0 =>
                          result.out.text[l].percent = percent_of(last, first)
                   /\ frac_less(first, last) =>
                          /\ result.out.text[l].percent.tenths >= 0
                          /\ result.out.text[l].arrow = "up+"
        /\ result.out.summary.price = round_2(sum_last(call.order))

(***************************************************************************)
(* C14: the monthly report on a history without a row of the month         *)
(***************************************************************************)
\* every listed history file has a row, and no window of the month ends with
\* an average of zero
MonthReadable ==
    \A i \in DOMAIN call.order :
        /\ rows_at(call.order[i]) # <<>>
        /\ LET window == window_of(call.order[i])
           IN  window # <<>> => window[Len(window)].avg_price.num # 0

\* C14: when the history file of a basket item has no row in the month of the
\* call in the current year, get_text_month does not raise: it skips the item
\* or reports its change as unavailable, and it renders every item that has
\* rows in the month.
C14_AbsentMonthHandled ==
    (result.fn = "get_text_month" /\ report.exists /\ MonthReadable) =>
        /\ ~result.out.raised
        /\ \A i \in DOMAIN call.order :
               IF window_of(call.order[i]) = <<>>
               THEN \A l \in lines_of(call.order[i]) :
                        result.out.text[l].percent = Percent0
               ELSE lines_of(call.order[i]) # {}

(***************************************************************************)
(* C15: the two sums of the basket line                                    *)
(***************************************************************************)
\* the sum of the current (index -1) or previous (index -2) averages of the
\* listed files that have a previous row; with whole, a file of one row
\* counts its only row in both sums
RECURSIVE basket_sum(_, _, _)
basket_sum(order, index, whole) ==
    IF order = <<>> THEN frac(0, 1)
    ELSE LET rows == rows_at(order[Len(order)])
             rest == basket_sum(SubSeq(order, 1, Len(order) - 1), index, whole)
         IN  IF Len(rows) >= 2
             THEN frac_add(rest, rows[Len(rows) + index + 1].avg_price)
             ELSE IF whole /\ Len(rows) = 1
             THEN frac_add(rest, rows[1].avg_price)
             ELSE rest

\* the change of the basket when both sums range over the same items
basket_percent(whole) ==
    LET current  == basket_sum(call.order, -1, whole)
        previous == basket_sum(call.order, -2, whole)
    IN  IF previous.num = 0 THEN Percent0 ELSE percent_of(current, previous)

\* C15: the basket line of get_text compares the sum of the current averages
\* with the sum of the previous averages of the same items: an item with one
\* history row is left out of both sums or counted in both, so it does not
\* inflate the change of the basket.
C15_BasketSameItems ==
    (result.fn = "get_text" /\ ~result.out.raised) =>
        \E whole \in BOOLEAN :
            result.out.summary.percent.tenths = basket_percent(whole).tenths

(***************************************************************************)
(* C16: the change and the indicator of a line of get_text                 *)
(***************************************************************************)
\* t tenths of a percent is (new / (old * 0.01)) - 100 rounded to one decimal:
\* no other number of tenths is nearer to 1000 * (new - old) / old
rounded_change(t, new, old) ==
    LET n == 1000 * (new.num * old.den - old.num * new.den)
        d == old.num * new.den
        off == IF n - t * d >= 0 THEN n - t * d ELSE t * d - n
    IN  2 * off <= d

\* C16: for a previous and a current average with a previous average that is
\* not zero, the line of get_text has percent = (new_avg / (old_avg * 0.01))
\* - 100 rounded to one decimal, the down arrow exactly when percent < 0 and
\* the up arrow with '+' exactly when percent >= 0.
C16_PercentAndArrow ==
    (result.fn = "get_text" /\ ~result.out.raised) =>
        \A i \in DOMAIN call.order :
            LET rows == rows_at(call.order[i])
            IN  (Len(rows) >= 2 /\ rows[Len(rows) - 1].avg_price.num # 0) =>
                    /\ lines_of(call.order[i]) # {}
                    /\ \A l \in lines_of(call.order[i]) :
                           LET line == result.out.text[l]
                           IN  /\ rounded_change(line.percent.tenths,
                                                 rows[Len(rows)].avg_price,
                                                 rows[Len(rows) - 1].avg_price)
                               /\ line.arrow = "down" <=> line.percent.tenths < 0
                               /\ line.arrow = "up+" <=> line.percent.tenths >= 0

\* a line for a history that went from 10.00 to 11.00: +10.0 and up
C16_Witness ==
    /\ result.fn = "get_text"
    /\ ~result.out.raised
    /\ \E l \in DOMAIN result.out.text :
           LET rows == rows_at(result.out.text[l].key)
           IN  /\ Len(rows) >= 2
               /\ rows[Len(rows) - 1].avg_price = frac(1000, 1)
               /\ rows[Len(rows)].avg_price = frac(1100, 1)
               /\ result.out.text[l].percent.tenths = 100
               /\ result.out.text[l].arrow = "up+"

(***************************************************************************)
(* C17, C18, C19: schedule_checker                                         *)
(***************************************************************************)
\* the minute t of the clock matches every field the schedule configures
matches_schedule(service, t) ==
    LET date == date_of(day_of(t))
    IN  /\ service.day = None \/ service.day = Num(date.day)
        /\ service.schedule_day = None
               \/ service.schedule_day = Num(weekday(date))
        /\ service.schedule_time = None
               \/ service.schedule_time = Str(strftime_hm(minute_of(t)))

\* C17: while schedule_checker runs, func is executed at the specified time,
\* whatever the schedule and the minute the checker was started at: no minute
\* that matches every configured field goes by without a check at which func
\* is invoked.
C17_EveryMatchInvoked ==
    [][\A s \in DOMAIN sched :
           (sched[s].running /\ clock' > clock) =>
               \A t \in clock..(clock' - 1) :
                   matches_schedule(sched[s], t) =>
                       \E c \in DOMAIN sched'[s].calls : sched'[s].calls[c] = t]_vars

\* the task of service s makes its check in this step
checks(s) ==
    /\ sched[s].running /\ sched[s].at = "sleep" /\ sched[s].wake = clock
    /\ sched'[s] # sched[s]

\* C18: schedule_checker survives a failure of func: when func raises, the
\* error is logged and the loop keeps running (_running stays true, the task
\* sleeps and checks again), and at a later check that matches the schedule
\* func is invoked again.
C18_SurvivesFailure ==
    [][\A s \in DOMAIN sched :
           /\ (sched[s].at = "func" /\ sched'[s].errors > sched[s].errors) =>
                  /\ sched'[s].running
                  /\ sched'[s].at = "sleep"
                  /\ sched'[s].wake > clock'
                  /\ sched'[s].calls = sched[s].calls
           /\ (sched[s].errors > 0 /\ checks(s)
                   /\ matches_schedule(sched[s], clock)) =>
                  /\ sched'[s].at = "func"
                  /\ sched'[s].calls = Append(sched[s].calls, clock)]_vars

\* func raised, and func has been invoked again at a later check
C18_Witness ==
    \E s \in DOMAIN sched :
        /\ sched[s].errors > 0
        /\ sched[s].running
        /\ sched[s].at = "func"
        /\ Len(sched[s].calls) >= 2

\* C19: schedule_checker invokes func only at a check whose current time
\* matches every configured field (a field left as None is not constrained),
\* and never twice for the same calendar minute.
C19_OnlyAtMatchOncePerMinute ==
    \A s \in DOMAIN sched :
        /\ \A c \in DOMAIN sched[s].calls :
               matches_schedule(sched[s], sched[s].calls[c])
        /\ \A c, e \in DOMAIN sched[s].calls :
               c # e => sched[s].calls[c] # sched[s].calls[e]

\* func was invoked, and raised, at a check that matched a day of the month,
\* a day of the week and a time, and the task has gone on to later minutes
C19_Witness ==
    \E s \in DOMAIN sched :
        /\ sched[s].day # None
        /\ sched[s].schedule_day # None
        /\ sched[s].schedule_time # None
        /\ sched[s].errors > 0
        /\ Len(sched[s].calls) = 1
        /\ clock > sched[s].calls[1] + 1

(***************************************************************************)
(* C20: channel deactivation                                               *)
(***************************************************************************)
\* a broadcast is made in this step
Broadcasts ==
    /\ result'.fn = "send_message_all_user_and_channel"
    /\ \E users \in [DOMAIN db.users -> SendOutcomes \ {"blocked"}] :
       \E channels \in [DOMAIN active_channels(db) -> SendOutcomes] :
           result'.attempts =
               send_message_all_user_and_channel(db,
                   [users |-> users, channels |-> channels]).attempts

\* the chats of a kind a send was attempted to
attempted(attempts, kind) ==
    {attempts[a].chat_id : a \in {x \in DOMAIN attempts : attempts[x].to = kind}}

\* C20: after a broadcast in which the send to a channel fails with "bot was
\* blocked by the user" the channel is stored with is_active = False, and a
\* broadcast skips the channels stored so; a failed send does not prevent
\* the attempts to the other users and channels.
C20_BlockedChannelDeactivated ==
    [][Broadcasts =>
           /\ \A a \in DOMAIN result'.attempts :
                  (result'.attempts[a].to = "channel"
                       /\ result'.attempts[a].outcome = "blocked") =>
                      \A c \in DOMAIN db'.channels :
                          db'.channels[c].channel_id = result'.attempts[a].chat_id
                              => ~db'.channels[c].is_active
           /\ attempted(result'.attempts, "user")
                  = {db.users[u].user_id : u \in DOMAIN db.users}
           /\ attempted(result'.attempts, "channel")
                  = {db.channels[c].channel_id :
                        c \in {x \in DOMAIN db.channels : db.channels[x].is_active}}]_vars

(***************************************************************************)
(* C21: the weekly report and the scrape                                   *)
(***************************************************************************)
\* the minute 10:00 of day d of the clock
ten_o_clock(d) == (d - 1) * MinutesPerDay + 10 * 60

\* C21: the tasks do not starve one another: on every Wednesday on which the
\* process runs, the weekly report scheduled for 10:00 is sent when the
\* scrape scheduled for 09:50 has finished, however long the scrape takes:
\* the scrape does not make the 10:00 check of send_shed be missed.
C21_WeeklyReportNotStarved ==
    \A d \in 1..SchedDays :
        (/\ weekday(date_of(d)) = 2
         /\ \A s \in DOMAIN sched : sched[s].running
         /\ clock > ten_o_clock(d)) =>
            /\ "send_shed" \in DOMAIN sched
            /\ \E c \in DOMAIN sched["send_shed"].calls :
                   sched["send_shed"].calls[c] = ten_o_clock(d)

(***************************************************************************)
(* C22: the month the monthly report covers                                *)
(***************************************************************************)
\* the calendar month before the month of a date
previous_month(date) ==
    IF date.month > 1 THEN [month |-> date.month - 1, year |-> date.year]
    ELSE [month |-> 12, year |-> date.year - 1]

\* the rows of the previous calendar month in the history file of a key
previous_window(key) ==
    filtered_data(rows_at(key), previous_month(now(today)).month,
                  previous_month(now(today)).year)

\* a history file is listed, every listed history file has rows of the
\* previous calendar month, and their last average is not zero
PreviousMonthReadable ==
    /\ call.order # <<>>
    /\ \A i \in DOMAIN call.order :
        LET window == previous_window(call.order[i])
        IN  window # <<>> /\ window[Len(window)].avg_price.num # 0

\* C22: the monthly report triggered in month M of year Y covers the previous
\* calendar month, month M-1 of year Y when M > 1 and December of year Y-1
\* when M is January: for every M it completes, it is titled with that month,
\* and the line of every item is computed from the history rows of that month
\* and that year.
C22_PreviousMonthCovered ==
    (result.fn = "send_report_to_month" /\ report.exists /\ PreviousMonthReadable) =>
        /\ ~result.out.raised
        /\ result.out.title.month = months[previous_month(now(today)).month]
        /\ Len(result.out.text) = Len(call.order)
        /\ \A l \in DOMAIN result.out.text :
               LET window == previous_window(result.out.text[l].key)
               IN  /\ result.out.text[l].price =
                          round_2(series_mean_of_means(
                              [r \in DOMAIN window |-> window[r].avg_price]))
                   /\ result.out.text[l].min =
                          series_min([r \in DOMAIN window |-> window[r].min_price])
====
